---- MODULE Spec2Model ----
(***************************************************************************)
(* Klisk: project discovery, the agent/tool registry and the per-project   *)
(* environment cache (src/src/klisk/core).                                 *)
(*                                                                         *)
(* Python objects are modelled with identity: the heap maps object ids to  *)
(* AgentEntry / ToolEntry records, and the registry and every snapshot     *)
(* hold ids, so that two dicts sharing an entry really share it.  Python   *)
(* dicts are insertion-ordered: a dict is a sequence of <<key, value>>.    *)
(* Optional values are <<>> (None) or <<v>>.                               *)
(***************************************************************************)
EXTENDS Integers, Sequences, FiniteSets, TLC

VARIABLES
    tree,         \* the project directories on disk: config, .env, source files
    registry,     \* AgentRegistry singleton: [agents, tools], dicts name -> object id
    heap,         \* live AgentEntry / ToolEntry objects by id
    sys_modules,  \* sys.modules restricted to project modules: module name -> file
    environ,      \* os.environ: function from the set variables to their values
    project_envs, \* klisk.core.env._project_envs: project name -> {VAR: value}
    ctx,          \* stack of active project_env_context frames
    dp,           \* activation record of discover_project
    ws,           \* activation record of discover_all_projects
    held,         \* what the last call returned to its caller
    daemon,       \* processes, PID files and the daemon.py calls in progress
    server,       \* the Dev Server process: launch mode, watcher task
    chat,         \* one chat session: its continuity state
    trace         \* observation of the step just taken (history variable)

vars == <<tree, registry, heap, sys_modules, environ, project_envs, ctx, dp, ws,
          held, daemon, server, chat, trace>>

None == <<>>
Some(v) == <<v>>

(***************************************************************************)
(* Insertion-ordered dicts.                                                *)
(***************************************************************************)
EmptyDict == <<>>

DictKeys(d) == {d[i][1] : i \in 1..Len(d)}

DictValues(d) == {d[i][2] : i \in 1..Len(d)}

DictHas(d, k) == k \in DictKeys(d)

DictGet(d, k) == d[CHOOSE i \in 1..Len(d) : d[i][1] = k][2]

DictSet(d, k, v) ==
    IF DictHas(d, k)
    THEN [i \in 1..Len(d) |-> IF d[i][1] = k THEN <<k, v>> ELSE d[i]]
    ELSE Append(d, <<k, v>>)

StartsWith(s, prefix) ==
    Len(s) >= Len(prefix) /\ SubSeq(s, 1, Len(prefix)) = prefix

(***************************************************************************)
(* The file universe.  A path is its sequence of parts relative to the     *)
(* project root.  PartRank is Python's string order on the parts used.     *)
(***************************************************************************)
PMain == <<"src", "main.py">>
PToolA == <<"src", "tools", "a.py">>
PInit == <<"src", "tools", "__init__.py">>
PZ == <<"src", "z.py">>
PVenv == <<"venv", "x.py">>
PHidden == <<"src", ".cache", "h.py">>

Paths == {PMain, PToolA, PInit, PZ, PVenv, PHidden}

PartRank(s) ==
    CASE s = ".cache" -> 1
      [] s = "__init__.py" -> 2
      [] s = "a.py" -> 3
      [] s = "h.py" -> 4
      [] s = "main.py" -> 5
      [] s = "src" -> 6
      [] s = "tools" -> 7
      [] s = "venv" -> 8
      [] s = "x.py" -> 9
      [] s = "z.py" -> 10

RECURSIVE PathLess(_, _)
PathLess(a, b) ==
    IF a = <<>> THEN b # <<>>
    ELSE IF b = <<>> THEN FALSE
    ELSE IF Head(a) = Head(b) THEN PathLess(Tail(a), Tail(b))
    ELSE PartRank(Head(a)) < PartRank(Head(b))

RECURSIVE SortedPaths(_)
SortedPaths(S) ==
    IF S = {} THEN <<>>
    ELSE LET m == CHOOSE x \in S : \A y \in S \ {x} : PathLess(x, y)
         IN <<m>> \o SortedPaths(S \ {m})

_SKIP_DIRS == {"venv", "env", "node_modules", "__pycache__"}

PathName(path) == path[Len(path)]

(***************************************************************************)
(* registry.py                                                             *)
(***************************************************************************)
EmptyRegistry == [agents |-> EmptyDict, tools |-> EmptyDict]

register_agent(reg, h, oid) == [reg EXCEPT !.agents = DictSet(@, h[oid].name, oid)]

\* Mutant of register_tool: a name already registered keeps its entry.
register_tool_first(reg, h, oid) ==
    IF DictHas(reg.tools, h[oid].name) THEN reg
    ELSE [reg EXCEPT !.tools = DictSet(@, h[oid].name, oid)]

register_tool(reg, h, oid) == [reg EXCEPT !.tools = DictSet(@, h[oid].name, oid)]

get_agent(reg, h, name) ==
    IF DictHas(reg.agents, name) THEN Some(h[DictGet(reg.agents, name)]) ELSE None

get_tool(reg, h, name) ==
    IF DictHas(reg.tools, name) THEN Some(h[DictGet(reg.tools, name)]) ELSE None

\* Mutant of clear: the registry is left as it is.
clear_nothing(reg) == reg

clear(reg) == EmptyRegistry

get_project_snapshot(reg) ==
    [agents |-> reg.agents, tools |-> reg.tools, config |-> None]

EmptySnapshot == [agents |-> EmptyDict, tools |-> EmptyDict, config |-> None]

SnapOids(s) == DictValues(s.agents) \cup DictValues(s.tools)

(***************************************************************************)
(* Object allocation: a new object takes the smallest id not in use, and   *)
(* an object no dict refers to any more is freed (reference counting).     *)
(***************************************************************************)
NewOid(h) == CHOOSE n \in 1..(Cardinality(DOMAIN h) + 1) : n \notin DOMAIN h

Alloc(h, obj) == [o \in DOMAIN h \cup {NewOid(h)} |-> IF o \in DOMAIN h THEN h[o] ELSE obj]

Collect(h, roots) == [o \in DOMAIN h \cap roots |-> h[o]]

(***************************************************************************)
(* primitives.py: what the statements of a source file do when the file    *)
(* is executed.  A file body is a sequence of statements:                  *)
(*   [op |-> "tool", name, description]          an @tool function         *)
(*   [op |-> "agent", name, instructions, model, lookup, direct, builtin]  *)
(*        define_agent(tools = get_tools of lookup + direct objects,       *)
(*                     builtin_tools = builtin)                            *)
(*   [op |-> "raise"]                            a statement that raises   *)
(***************************************************************************)
builtin_tool_name(bt) == "builtin:" \o bt

RECURSIVE Contains(_, _)
Contains(s, c) ==
    Len(s) > 0 /\ (SubSeq(s, 1, 1) = c \/ Contains(SubSeq(s, 2, Len(s)), c))

PATCH_VAR == "OPENAI_AGENTS_ENABLE_LITELLM_SERIALIZER_PATCH"

\* _resolve_model: what it does to os.environ.  A model string with a provider
\* prefix other than "openai/" is a LiteLLM model, for which the serializer
\* patch variable is set unless it is set already.
_resolve_model(env, model_str) ==
    IF ~Contains(model_str, "/") \/ StartsWith(model_str, "openai/")
    THEN env
    ELSE [k \in DOMAIN env \cup {PATCH_VAR} |-> IF k \in DOMAIN env THEN env[k] ELSE "true"]

_register_tool(st, file, s) ==
    LET entry == [kind |-> "tool", name |-> s.name, description |-> s.description,
                  source_file |-> file, function_tool |-> s.name, project |-> None]
        oid == NewOid(st.heap)
        h == Alloc(st.heap, entry)
    IN [st EXCEPT !.heap = h, !.reg = register_tool(st.reg, h, oid)]

\* get_tools: the FunctionTool of each name, or ValueError at the first
\* name the registry does not hold.  The result is the tools' own names.
get_tools(reg, h, names) ==
    IF \E i \in 1..Len(names) : get_tool(reg, h, names[i]) = None
    THEN [exc |-> "ValueError", tools |-> <<>>]
    ELSE [exc |-> "", tools |-> [i \in 1..Len(names) |->
                                   get_tool(reg, h, names[i])[1].function_tool]]

\* define_agent: the tools' names, the model resolution, the new AgentEntry.
\* The agents of the model combine builtin tools with OpenAI models only.
define_agent(st, file, s) ==
    LET found == get_tools(st.reg, st.heap, s.lookup)
        tool_names == found.tools \o s.direct
                      \o [i \in 1..Len(s.builtin) |-> builtin_tool_name(s.builtin[i])]
        entry == [kind |-> "agent", name |-> s.name, instructions |-> s.instructions,
                  model |-> s.model, tools |-> tool_names, source_file |-> file,
                  project |-> None]
        oid == NewOid(st.heap)
        h == Alloc(st.heap, entry)
    IN IF found.exc # ""
       THEN [st EXCEPT !.exc = found.exc]
       ELSE [st EXCEPT !.heap = h, !.reg = register_agent(st.reg, h, oid),
                       !.env = _resolve_model(st.env, s.model)]

ExecStmt(st, file, s) ==
    CASE s.op = "tool" -> _register_tool(st, file, s)
      [] s.op = "agent" -> define_agent(st, file, s)
      [] s.op = "raise" -> [st EXCEPT !.exc = "ImportError"]

\* exec_module: the statements run in order until one raises.
RECURSIVE exec_module(_, _, _)
exec_module(st, file, body) ==
    IF body = <<>> \/ st.exc # "" THEN st
    ELSE exec_module(ExecStmt(st, file, Head(body)), file, Tail(body))

(***************************************************************************)
(* Paths as strings.  A project directory is PROJECTS_DIR / name.          *)
(***************************************************************************)
PROJECTS_DIR == "/w"

ProjectDir(p) == PROJECTS_DIR \o "/" \o p

RECURSIVE Join(_, _)
Join(parts, sep) ==
    IF Len(parts) = 0 THEN ""
    ELSE IF Len(parts) = 1 THEN parts[1]
    ELSE parts[1] \o sep \o Join(Tail(parts), sep)

AbsPath(file) == ProjectDir(file.project) \o "/" \o Join(file.path, "/")

RECURSIVE LStrip(_, _)
LStrip(s, c) ==
    IF Len(s) > 0 /\ SubSeq(s, 1, 1) = c THEN LStrip(SubSeq(s, 2, Len(s)), c) ELSE s

\* s.split(c)[0]
RECURSIVE SplitFirst(_, _)
SplitFirst(s, c) ==
    IF Len(s) = 0 \/ SubSeq(s, 1, 1) = c THEN ""
    ELSE SubSeq(s, 1, 1) \o SplitFirst(SubSeq(s, 2, Len(s)), c)

\* Path.with_suffix(""): the last component loses its ".py".
WithoutSuffix(path) ==
    LET n == PathName(path)
    IN IF Len(n) > 3 /\ SubSeq(n, Len(n) - 2, Len(n)) = ".py"
       THEN [path EXCEPT ![Len(path)] = SubSeq(n, 1, Len(n) - 3)]
       ELSE path

ModuleName(path) == "_klisk_." \o Join(WithoutSuffix(path), ".")

IsSkippedPart(part) == StartsWith(part, ".") \/ part \in _SKIP_DIRS

(***************************************************************************)
(* config.py: a project's configuration, the defaults when there is no     *)
(* klisk.config.yaml.                                                      *)
(***************************************************************************)
ProjectConfig_load(t) ==
    IF t.cfg = None THEN [name |-> "MyAgent", entry |-> PMain] ELSE t.cfg[1]

(***************************************************************************)
(* discovery.py                                                            *)
(***************************************************************************)
\* _clean_project_modules: the modules that stay in sys.modules.
_clean_project_modules(mods, p) ==
    LET project_str == ProjectDir(p)
        Evicted(m) ==
            LET resolved == AbsPath(mods[m])
                rel == LStrip(SubSeq(resolved, Len(project_str) + 1, Len(resolved)), "/")
                first_part == SplitFirst(rel, "/")
            IN /\ StartsWith(resolved, project_str)
               /\ ~(first_part \in _SKIP_DIRS \/ StartsWith(first_part, "."))
    IN [m \in {x \in DOMAIN mods : ~Evicted(x)} |-> mods[m]]

RECURSIVE Reverse(_)
Reverse(q) == IF q = <<>> THEN <<>> ELSE Append(Reverse(Tail(q)), Head(q))

\* Mutant of _import_project_modules: the files are not taken in sorted order.
_import_project_modules_unsorted(t, exclude) ==
    Reverse(SortedPaths({f \in DOMAIN t.files :
                            /\ f # exclude
                            /\ PathName(f) # "__init__.py"
                            /\ ~\E i \in 1..Len(f) : IsSkippedPart(f[i])}))

\* _import_project_modules: the files it imports, in the order it imports them.
_import_project_modules(t, exclude) ==
    SortedPaths({f \in DOMAIN t.files :
                    /\ f # exclude
                    /\ PathName(f) # "__init__.py"
                    /\ ~\E i \in 1..Len(f) : IsSkippedPart(f[i])})

\* Mutant of _import_module_from_path: a module already in sys.modules is not
\* executed again.
_import_module_from_path_cached(st, t, p, path) ==
    LET file == [project |-> p, path |-> path]
        module_name == ModuleName(path)
        loaded == [m \in DOMAIN st.mods \cup {module_name} |->
                     IF m = module_name THEN file ELSE st.mods[m]]
    IN IF module_name \in DOMAIN st.mods
       THEN st
       ELSE exec_module([st EXCEPT !.mods = loaded], file, t.files[path])

\* Mutant of _import_module_from_path: an exception of the module is swallowed.
_import_module_from_path_swallow(st, t, p, path) ==
    LET file == [project |-> p, path |-> path]
        module_name == ModuleName(path)
        loaded == [m \in DOMAIN st.mods \cup {module_name} |->
                     IF m = module_name THEN file ELSE st.mods[m]]
    IN [exec_module([st EXCEPT !.mods = loaded], file, t.files[path]) EXCEPT !.exc = ""]

\* _import_module_from_path: the module is evicted, created anew, entered in
\* sys.modules and executed.  st is [reg, heap, exc, mods, env].
_import_module_from_path(st, t, p, path) ==
    LET file == [project |-> p, path |-> path]
        module_name == ModuleName(path)
        evicted == [m \in DOMAIN st.mods \ {module_name} |-> st.mods[m]]
        loaded == [m \in DOMAIN evicted \cup {module_name} |->
                     IF m = module_name THEN file ELSE evicted[m]]
    IN exec_module([st EXCEPT !.mods = loaded], file, t.files[path])

\* ProjectSnapshot.to_dict: the snapshot by value.
to_dict(snap, h) ==
    [agents |-> [i \in 1..Len(snap.agents) |-> <<snap.agents[i][1], h[snap.agents[i][2]]>>],
     tools |-> [i \in 1..Len(snap.tools) |-> <<snap.tools[i][1], h[snap.tools[i][2]]>>],
     config |-> snap.config]

DpIdle ==
    [pc |-> "idle", project |-> "", entry |-> <<>>, todo |-> <<>>, log |-> <<>>,
     exc |-> "", snap |-> EmptySnapshot]

WsIdle ==
    [pc |-> "idle", todo |-> <<>>, current |-> "", project_snapshots |-> <<>>,
     agent_origins |-> EmptyDict, tool_origins |-> EmptyDict, merged |-> EmptySnapshot,
     failed |-> {}, environ0 |-> << >>]

\* daemon.py: no process, no PID file, no call in progress.
Callers == {1, 2}

CallIdle == [op |-> "idle", project |-> None, port |-> 0, pid |-> 0, polls |-> 0]

DaemonIdle ==
    [procs |-> <<>>, files |-> << >>, calls |-> [c \in Callers |-> CallIdle]]

\* app.py: the Dev Server is not running.  pending is the batch of changed
\* paths the watcher has not yet seen; first is the Snapshot built at startup,
\* by value, and reloaded tells whether a re-discovery has completed since.
\* clients is the list _reload_clients (sockets by number), conns the state of
\* each socket's connection, push the activation of the two loops that end
\* _on_file_change: the list iterator's index, the socket whose send_text is
\* awaited, the list disconnected, and for the record the subscribers when the
\* push began and the sends completed.
Sockets == {1, 2, 3}

PushIdle == [i |-> 0, cur |-> 0, disconnected |-> <<>>, subs |-> {}, sent |-> <<>>]

ServerIdle ==
    [mode |-> "none", watcher |-> "none", pending |-> {}, first |-> None,
     reloaded |-> FALSE, clients |-> <<>>, conns |-> [c \in Sockets |-> "none"],
     push |-> PushIdle, api_keys |-> None]

\* chat.py: no chat session.  In a session, kind tells the handler
\* (handle_websocket_chat or handle_streaming_chat); the three continuity
\* fields are the handler's locals, resp. the keys of the state dict; stream is
\* what the engine will yield in a run of this session; turns counts the
\* messages handled, last_agent remembers the agent of the latest run and
\* after_clear that the latest message was a clear.  Where a run is followed
\* event by event, pos is the position of the next stream event and sent the
\* events sent so far.
ChatIdle ==
    [kind |-> "none", previous_response_id |-> None, conversation_history |-> None,
     current_agent_name |-> None, stream |-> <<>>, turns |-> 0,
     last_agent |-> None, after_clear |-> FALSE,
     pos |-> 0, seen_hosted_tools |-> << >>, sent |-> <<>>]

NoResult == [status |-> "none", project |-> "", snap |-> EmptySnapshot,
             view |-> to_dict(EmptySnapshot, << >>), edited |-> FALSE]

\* The objects some dict still refers to.
HeapRoots(reg, d, w, hd) ==
    SnapOids(reg) \cup SnapOids(d.snap) \cup SnapOids(hd.snap) \cup SnapOids(w.merged)
    \cup UNION {SnapOids(w.project_snapshots[i][2]) : i \in 1..Len(w.project_snapshots)}

\* Mutant of DpBegin: a missing entry file is swallowed and an empty snapshot
\* is returned.
DpBegin_swallow(p) ==
    /\ dp.pc = "idle"
    /\ LET config == ProjectConfig_load(tree[p])
       IN /\ registry' = clear(registry)
          /\ IF config.entry \notin DOMAIN tree[p].files
             THEN /\ dp' = [DpIdle EXCEPT !.pc = "done", !.project = p,
                                          !.entry = config.entry]
                  /\ UNCHANGED sys_modules
             ELSE /\ dp' = [DpIdle EXCEPT !.pc = "importing", !.project = p,
                                          !.entry = config.entry,
                                          !.todo = _import_project_modules(tree[p], config.entry)]
                  /\ sys_modules' = _clean_project_modules(sys_modules, p)

\* discover_project, lines 46-58: load the config, clear the registry, check
\* the entry file, evict the project's modules.
DpBegin(p) ==
    /\ dp.pc = "idle"
    /\ LET config == ProjectConfig_load(tree[p])
       IN /\ registry' = clear(registry)
          /\ IF config.entry \notin DOMAIN tree[p].files
             THEN /\ dp' = [DpIdle EXCEPT !.pc = "raised", !.project = p,
                                          !.entry = config.entry,
                                          !.exc = "FileNotFoundError"]
                  /\ UNCHANGED sys_modules
             ELSE /\ dp' = [DpIdle EXCEPT !.pc = "importing", !.project = p,
                                          !.entry = config.entry,
                                          !.todo = _import_project_modules(tree[p], config.entry)]
                  /\ sys_modules' = _clean_project_modules(sys_modules, p)

\* One iteration of the loop of _import_project_modules (discover_project, line 61).
DpImportNext ==
    /\ dp.pc = "importing"
    /\ dp.todo # <<>>
    /\ LET st == _import_module_from_path(
                     [reg |-> registry, heap |-> heap, exc |-> "", mods |-> sys_modules,
                      env |-> environ],
                     tree[dp.project], dp.project, Head(dp.todo))
       IN /\ registry' = st.reg
          /\ sys_modules' = st.mods
          /\ environ' = st.env
          /\ dp' = IF st.exc # ""
                   THEN [dp EXCEPT !.pc = "raised", !.exc = st.exc,
                                   !.log = Append(@, Head(dp.todo))]
                   ELSE [dp EXCEPT !.todo = Tail(@), !.log = Append(@, Head(dp.todo))]
          /\ heap' = Collect(st.heap, HeapRoots(registry', dp', ws, held))
    /\ trace' = [op |-> "import", project |-> dp.project, path |-> Head(dp.todo)]
    /\ UNCHANGED <<chat, daemon, server, tree, project_envs, ctx, ws, held>>

\* discover_project, lines 64-74: import the entry file, then take the snapshot.
DpImportEntry ==
    /\ dp.pc = "importing"
    /\ dp.todo = <<>>
    /\ LET st == _import_module_from_path(
                     [reg |-> registry, heap |-> heap, exc |-> "", mods |-> sys_modules,
                      env |-> environ],
                     tree[dp.project], dp.project, dp.entry)
           config == ProjectConfig_load(tree[dp.project])
       IN /\ registry' = st.reg
          /\ sys_modules' = st.mods
          /\ environ' = st.env
          /\ dp' = IF st.exc # ""
                   THEN [dp EXCEPT !.pc = "raised", !.exc = st.exc,
                                   !.log = Append(@, dp.entry)]
                   ELSE [dp EXCEPT !.pc = "done", !.log = Append(@, dp.entry),
                                   !.snap = [get_project_snapshot(st.reg)
                                               EXCEPT !.config = Some(config)]]
          /\ heap' = Collect(st.heap, HeapRoots(registry', dp', ws, held))
    /\ trace' = [op |-> "import", project |-> dp.project, path |-> dp.entry]
    /\ UNCHANGED <<chat, daemon, server, tree, project_envs, ctx, ws, held>>

(***************************************************************************)
(* Project trees.  A tree is [cfg, env, files]: the parsed klisk.config.yaml*)
(* (None when absent), the parsed .env (None when absent) and the source   *)
(* files present, each with its body.                                      *)
(***************************************************************************)
ToolStmt(n, d) == [op |-> "tool", name |-> n, description |-> d]

AgentStmt(n, instr, model, lookup, direct, builtin) ==
    [op |-> "agent", name |-> n, instructions |-> instr, model |-> model,
     lookup |-> lookup, direct |-> direct, builtin |-> builtin]

RaiseStmt == [op |-> "raise"]

\* choice is a function from Paths to None or Some(body).
MkFiles(choice) == [f \in {x \in Paths : choice[x] # None} |-> choice[f][1]]

MkTree(cfg, env, a, z, skipped, m) ==
    [cfg |-> cfg, env |-> env,
     files |-> MkFiles([f \in Paths |->
        CASE f = PToolA -> a
          [] f = PZ -> z
          [] f = PMain -> m
          [] f = PInit -> IF skipped THEN Some(<<ToolStmt("i", "package init")>>) ELSE None
          [] f = PVenv -> IF skipped THEN Some(<<ToolStmt("v", "venv module")>>) ELSE None
          [] f = PHidden -> IF skipped THEN Some(<<ToolStmt("h", "hidden module")>>) ELSE None])]

Greeter == AgentStmt("Greeter", "You greet people.", "gpt-4o", <<"t">>, <<>>, <<>>)

Searcher == AgentStmt("Searcher", "You search.", "openai/gpt-4o", <<>>, <<"x">>,
                      <<"web_search">>)

PjConfigs == {None, Some([name |-> "TestBot", entry |-> PVenv])}

PjBodiesA ==
    {Some(<<ToolStmt("t", "Greet someone by name.")>>),
     Some(<<ToolStmt("t", "Greet someone by name."), RaiseStmt>>),
     Some(<<ToolStmt("u", "Another tool.")>>)}

PjBodiesZ == {None, Some(<<ToolStmt("t", "Greet, later file.")>>)}

PjBodiesMain == {None, Some(<<Greeter>>), Some(<<ToolStmt("m", "In the entry."), Searcher>>)}

PjTrees ==
    {MkTree(cfg, None, a, z, TRUE, m) :
        cfg \in PjConfigs, a \in PjBodiesA, z \in PjBodiesZ, m \in PjBodiesMain}

EmptyTree == [cfg |-> None, env |-> None, files |-> << >>]

\* The number of components (config, .env, each file) in which two trees differ.
TreeDiff(t1, t2) ==
    Cardinality({f \in Paths :
                    \/ (f \in DOMAIN t1.files) # (f \in DOMAIN t2.files)
                    \/ /\ f \in DOMAIN t1.files
                       /\ f \in DOMAIN t2.files
                       /\ t1.files[f] # t2.files[f]})
    + (IF t1.cfg # t2.cfg THEN 1 ELSE 0) + (IF t1.env # t2.env THEN 1 ELSE 0)

(***************************************************************************)
(* Single-project mode: a process that calls discover_project on project   *)
(* "p" again and again (dev server, CLI), while the user edits the tree    *)
(* between calls.                                                          *)
(***************************************************************************)
InitCommon ==
    /\ registry = EmptyRegistry
    /\ heap = << >>
    /\ sys_modules = << >>
    /\ project_envs = << >>
    /\ ctx = <<>>
    /\ dp = DpIdle
    /\ ws = WsIdle
    /\ held = NoResult
    /\ daemon = DaemonIdle
    /\ server = ServerIdle
    /\ chat = ChatIdle
    /\ trace = [op |-> "init"]

InitProject ==
    /\ InitCommon
    /\ \E t \in PjTrees : tree = [p \in {"p"} |-> t]
    /\ environ = << >>

PjCall ==
    /\ ws.pc = "idle"
    /\ DpBegin("p")
    /\ heap' = Collect(heap, HeapRoots(registry', dp', ws, held))
    /\ trace' = [op |-> "call", project |-> "p"]
    /\ UNCHANGED <<chat, daemon, server, tree, environ, project_envs, ctx, ws, held>>

PjReturn ==
    /\ ws.pc = "idle"
    /\ dp.pc = "done"
    /\ held' = [status |-> "ok", project |-> dp.project, snap |-> dp.snap,
                view |-> to_dict(dp.snap, heap), edited |-> FALSE]
    /\ dp' = DpIdle
    /\ heap' = Collect(heap, HeapRoots(registry, dp', ws, held'))
    /\ trace' = [op |-> "return", project |-> dp.project, log |-> dp.log, prev |-> held]
    /\ UNCHANGED <<chat, daemon, server, tree, registry, sys_modules, environ, project_envs, ctx, ws>>

PjRaise ==
    /\ ws.pc = "idle"
    /\ dp.pc = "raised"
    /\ held' = [NoResult EXCEPT !.status = dp.exc, !.project = dp.project]
    /\ dp' = DpIdle
    /\ heap' = Collect(heap, HeapRoots(registry, dp', ws, held'))
    /\ trace' = [op |-> "raise", project |-> dp.project, log |-> dp.log, prev |-> held]
    /\ UNCHANGED <<chat, daemon, server, tree, registry, sys_modules, environ, project_envs, ctx, ws>>

\* The user edits one file (or the config) of the project between two calls.
PjEdit ==
    /\ dp.pc = "idle"
    /\ ws.pc = "idle"
    /\ \E t \in PjTrees :
          /\ TreeDiff(tree["p"], t) = 1
          /\ tree' = [tree EXCEPT !["p"] = t]
    /\ held' = [held EXCEPT !.edited = TRUE]
    /\ trace' = [op |-> "edit"]
    /\ UNCHANGED <<chat, daemon, server, registry, heap, sys_modules, environ, project_envs, ctx, dp, ws>>

NextProject == PjCall \/ DpImportNext \/ DpImportEntry \/ PjReturn \/ PjRaise \/ PjEdit

SpecProject == InitProject /\ [][NextProject]_vars

(***************************************************************************)
(* env.py: the per-project environment cache.  os.environ and the cached   *)
(* dicts are functions from the variables that are set to their values.    *)
(***************************************************************************)
EmptyEnv == << >>

\* dotenv_values: a parsed .env maps each key to Some(value), or to None for a
\* key written without "=".  load_project_env keeps the keys that have a value.
load_project_env(envs, name, t) ==
    LET raw == IF t.env = None THEN EmptyEnv ELSE t.env[1]
        parsed == [k \in {x \in DOMAIN raw : raw[x] # None} |-> raw[k][1]]
    IN [n \in DOMAIN envs \cup {name} |-> IF n = name THEN parsed ELSE envs[n]]

get_project_env(envs, name) ==
    IF name = "" THEN EmptyEnv
    ELSE IF name \in DOMAIN envs THEN envs[name] ELSE EmptyEnv

clear_project_envs == << >>

\* project_env_context, lines 48-54: save the old values, apply the project's.
ContextEnter(env, env_vars) ==
    [old_values |-> [k \in DOMAIN env_vars |->
                       IF k \in DOMAIN env THEN Some(env[k]) ELSE None],
     environ |-> [k \in DOMAIN env \cup DOMAIN env_vars |->
                    IF k \in DOMAIN env_vars THEN env_vars[k] ELSE env[k]]]

\* Mutant of ContextExit: an old value that is falsy ("") is taken for unset.
ContextExit_falsy(env, env_vars, old_values) ==
    LET Restored(k) == k \in DOMAIN env_vars
        Kept == {k \in DOMAIN env \cup DOMAIN env_vars :
                    ~(Restored(k) /\ (old_values[k] = None \/ old_values[k] = Some("")))}
    IN [k \in Kept |-> IF Restored(k) THEN old_values[k][1] ELSE env[k]]

\* Mutant of ContextExit: the block is left without restoring anything.
ContextExit_keep(env, env_vars, old_values) == env

\* project_env_context, lines 58-64 (the finally block): every applied key is
\* set back to its old value, or removed when the old value was None.
ContextExit(env, env_vars, old_values) ==
    LET Restored(k) == k \in DOMAIN env_vars
        Kept == {k \in DOMAIN env \cup DOMAIN env_vars :
                    ~(Restored(k) /\ old_values[k] = None)}
    IN [k \in Kept |-> IF Restored(k) THEN old_values[k][1] ELSE env[k]]

EnvVars == {"K1", PATCH_VAR}

EnvValues == {"", "a"}

EnvFiles ==
    {None,
     Some([k \in {"K1"} |-> Some("a")]),
     Some([k \in {"K1", PATCH_VAR} |-> IF k = "K1" THEN Some("") ELSE Some("a")]),
     Some([k \in {"K1", PATCH_VAR} |-> IF k = "K1" THEN None ELSE Some("")])}

Environs == UNION {[S -> EnvValues] : S \in SUBSET EnvVars}

MaxCtxDepth == 2

(***************************************************************************)
(* The environment cache on its own: projects' .env files are loaded and   *)
(* cleared, contexts are entered (nested up to MaxCtxDepth) and left,      *)
(* normally or by an exception, and the code running inside or outside     *)
(* the blocks writes os.environ.                                           *)
(***************************************************************************)
InitEnv ==
    /\ InitCommon
    /\ \E e \in EnvFiles : tree = [p \in {"p"} |-> [EmptyTree EXCEPT !.env = e]]
    /\ environ \in Environs

EnvLoad ==
    /\ \E p \in DOMAIN tree : project_envs' = load_project_env(project_envs, p, tree[p])
    /\ trace' = [op |-> "load"]
    /\ UNCHANGED <<chat, daemon, server, tree, registry, heap, sys_modules, environ, ctx, dp, ws, held>>

EnvClear ==
    /\ project_envs # << >>
    /\ project_envs' = clear_project_envs
    /\ trace' = [op |-> "clear"]
    /\ UNCHANGED <<chat, daemon, server, tree, registry, heap, sys_modules, environ, ctx, dp, ws, held>>

EnvEnter ==
    /\ Len(ctx) < MaxCtxDepth
    /\ \E p \in DOMAIN tree :
          LET env_vars == get_project_env(project_envs, p)
              r == ContextEnter(environ, env_vars)
          IN /\ environ' = r.environ
             /\ ctx' = Append(ctx, [project |-> p, env_vars |-> env_vars,
                                    old_values |-> r.old_values, before |-> environ])
             /\ trace' = [op |-> "enter", project |-> p, env_vars |-> env_vars]
    /\ UNCHANGED <<chat, daemon, server, tree, registry, heap, sys_modules, project_envs, dp, ws, held>>

\* The code inside (or outside) the blocks sets or deletes a variable.
EnvWrite ==
    /\ \E k \in EnvVars :
          \/ \E v \in EnvValues :
                environ' = [x \in DOMAIN environ \cup {k} |-> IF x = k THEN v ELSE environ[x]]
          \/ environ' = [x \in DOMAIN environ \ {k} |-> environ[x]]
    /\ environ' # environ
    /\ trace' = [op |-> "write"]
    /\ UNCHANGED <<chat, daemon, server, tree, registry, heap, sys_modules, project_envs, ctx, dp, ws, held>>

\* The block ends, normally or by an exception: the finally clause runs.
EnvExit ==
    /\ ctx # <<>>
    /\ LET frame == ctx[Len(ctx)]
       IN /\ environ' = ContextExit(environ, frame.env_vars, frame.old_values)
          /\ ctx' = SubSeq(ctx, 1, Len(ctx) - 1)
          /\ \E raised \in BOOLEAN :
                trace' = [op |-> "exit", frame |-> frame, raised |-> raised]
    /\ UNCHANGED <<chat, daemon, server, tree, registry, heap, sys_modules, project_envs, dp, ws, held>>

NextEnv == EnvLoad \/ EnvClear \/ EnvEnter \/ EnvWrite \/ EnvExit

SpecEnv == InitEnv /\ [][NextEnv]_vars

(***************************************************************************)
(* discover_all_projects (workspace mode).                                 *)
(***************************************************************************)
\* Python's string order on the project directory names used.
ProjectRank(n) ==
    CASE n = "p" -> 1
      [] n = "q" -> 2
      [] n = "r" -> 3

RECURSIVE SortedProjects(_)
SortedProjects(S) ==
    IF S = {} THEN <<>>
    ELSE LET m == CHOOSE x \in S : \A y \in S \ {x} : ProjectRank(x) < ProjectRank(y)
         IN <<m>> \o SortedProjects(S \ {m})

\* origins.setdefault(name, []).append(project_name)
OriginsAppend(origins, name, project_name) ==
    DictSet(origins, name,
            IF DictHas(origins, name) THEN Append(DictGet(origins, name), project_name)
            ELSE <<project_name>>)

\* Lines 185-190, one of the two loops: every entry of the dict is tagged with
\* the project and its name is recorded.  r is [heap, origins].
RECURSIVE TagEntries(_, _, _)
TagEntries(r, items, project_name) ==
    IF items = <<>> THEN r
    ELSE LET oid == Head(items)[2]
             h == [r.heap EXCEPT ![oid].project = Some(project_name)]
         IN TagEntries([heap |-> h,
                        origins |-> OriginsAppend(r.origins, h[oid].name, project_name)],
                       Tail(items), project_name)

Colliding(origins) ==
    {origins[i][1] : i \in {j \in 1..Len(origins) : Len(origins[j][2]) > 1}}

\* Lines 200-207, one of the two inner loops: every entry of a project takes
\* its key as its name and is stored under it.  r is [heap, dict].
RECURSIVE MergeEntries(_, _, _, _)
MergeEntries(r, items, project_name, colliding) ==
    IF items = <<>> THEN r
    ELSE LET name == Head(items)[1]
             oid == Head(items)[2]
             key == IF name \in colliding THEN project_name \o "/" \o name ELSE name
         IN MergeEntries([heap |-> [r.heap EXCEPT ![oid].name = key],
                          dict |-> DictSet(r.dict, key, oid)],
                         Tail(items), project_name, colliding)

\* Lines 199-207: the loop over the project snapshots.  r is [heap, merged].
RECURSIVE MergeProjects(_, _, _, _)
MergeProjects(r, snaps, colliding_agents, colliding_tools) ==
    IF snaps = <<>> THEN r
    ELSE LET project_name == Head(snaps)[1]
             snap == Head(snaps)[2]
             a == MergeEntries([heap |-> r.heap, dict |-> r.merged.agents],
                               snap.agents, project_name, colliding_agents)
             t == MergeEntries([heap |-> a.heap, dict |-> r.merged.tools],
                               snap.tools, project_name, colliding_tools)
         IN MergeProjects([heap |-> t.heap,
                           merged |-> [r.merged EXCEPT !.agents = a.dict, !.tools = t.dict]],
                          Tail(snaps), colliding_agents, colliding_tools)

\* Lines 156-167.
WsBegin ==
    /\ ws.pc = "idle"
    /\ dp.pc = "idle"
    /\ project_envs' = clear_project_envs
    /\ ws' = [WsIdle EXCEPT
                !.pc = "scanning",
                !.todo = SortedProjects({p \in DOMAIN tree : tree[p].cfg # None}),
                !.merged = [EmptySnapshot EXCEPT
                              !.config = Some([name |-> "Klisk Workspace",
                                               workspace |-> TRUE])],
                !.environ0 = environ]
    /\ trace' = [op |-> "ws_begin"]
    /\ UNCHANGED <<chat, daemon, server, tree, registry, heap, sys_modules, environ, ctx, dp, held>>

\* Lines 169-179: the next project directory; its .env is loaded, its context
\* is entered and discover_project starts.
WsEnter ==
    /\ ws.pc = "scanning"
    /\ ws.todo # <<>>
    /\ LET p == Head(ws.todo)
           envs == load_project_env(project_envs, p, tree[p])
           env_vars == get_project_env(envs, p)
           r == ContextEnter(environ, env_vars)
       IN /\ DpBegin(p)
          /\ project_envs' = envs
          /\ environ' = r.environ
          /\ ctx' = Append(ctx, [project |-> p, env_vars |-> env_vars,
                                 old_values |-> r.old_values, before |-> environ])
          /\ ws' = [ws EXCEPT !.todo = Tail(@), !.current = p]
          /\ heap' = Collect(heap, HeapRoots(registry', dp', ws', held))
          /\ trace' = [op |-> "ws_enter", project |-> p]
    /\ UNCHANGED <<chat, daemon, server, tree, held>>

\* discover_project returned: the context is left and lines 184-192 tag the
\* entries of the snapshot.
WsDiscovered ==
    /\ ws.pc = "scanning"
    /\ dp.pc = "done"
    /\ LET frame == ctx[Len(ctx)]
           a == TagEntries([heap |-> heap, origins |-> ws.agent_origins],
                           dp.snap.agents, ws.current)
           t == TagEntries([heap |-> a.heap, origins |-> ws.tool_origins],
                           dp.snap.tools, ws.current)
       IN /\ environ' = ContextExit(environ, frame.env_vars, frame.old_values)
          /\ ctx' = SubSeq(ctx, 1, Len(ctx) - 1)
          /\ ws' = [ws EXCEPT
                      !.project_snapshots = Append(@, <<ws.current, dp.snap>>),
                      !.agent_origins = a.origins,
                      !.tool_origins = t.origins]
          /\ dp' = DpIdle
          /\ heap' = Collect(t.heap, HeapRoots(registry, dp', ws', held))
          /\ trace' = [op |-> "ws_tag", project |-> ws.current]
    /\ UNCHANGED <<chat, daemon, server, tree, registry, sys_modules, project_envs, held>>

\* discover_project raised: the context is left and lines 180-182 skip the
\* project.
WsFailed ==
    /\ ws.pc = "scanning"
    /\ dp.pc = "raised"
    /\ LET frame == ctx[Len(ctx)]
       IN /\ environ' = ContextExit(environ, frame.env_vars, frame.old_values)
          /\ ctx' = SubSeq(ctx, 1, Len(ctx) - 1)
    /\ ws' = [ws EXCEPT !.failed = @ \cup {ws.current}]
    /\ dp' = DpIdle
    /\ heap' = Collect(heap, HeapRoots(registry, dp', ws', held))
    /\ trace' = [op |-> "ws_failed", project |-> ws.current, exc |-> dp.exc]
    /\ UNCHANGED <<chat, daemon, server, tree, registry, sys_modules, project_envs, held>>

\* Lines 194-209: collisions are detected, the snapshots are merged under the
\* final keys and the merged snapshot is returned.
WsMerge ==
    /\ ws.pc = "scanning"
    /\ ws.todo = <<>>
    /\ dp.pc = "idle"
    /\ LET r == MergeProjects([heap |-> heap, merged |-> ws.merged], ws.project_snapshots,
                              Colliding(ws.agent_origins), Colliding(ws.tool_origins))
       IN /\ held' = [status |-> "ok", project |-> "", snap |-> r.merged,
                      view |-> to_dict(r.merged, r.heap), edited |-> FALSE]
          /\ ws' = WsIdle
          /\ heap' = Collect(r.heap, HeapRoots(registry, dp, ws', held'))
          /\ trace' = [op |-> "ws_return", project_snapshots |-> ws.project_snapshots,
                       failed |-> ws.failed, environ0 |-> ws.environ0]
    /\ UNCHANGED <<chat, daemon, server, tree, registry, sys_modules, environ, project_envs, ctx, dp>>

NextWorkspace ==
    WsBegin \/ WsEnter \/ DpImportNext \/ DpImportEntry \/ WsDiscovered \/ WsFailed \/ WsMerge

(***************************************************************************)
(* Workspace mode: a process that calls discover_all_projects again and    *)
(* again on a workspace of up to three project directories.                *)
(***************************************************************************)
Projects == {"p", "q", "r"}

WsConfig == Some([name |-> "TestBot", entry |-> PMain])

SlashGreeter == AgentStmt("p/Greeter", "You greet in project style.", "gpt-4o", <<>>, <<>>, <<>>)

Other == AgentStmt("Other", "You do other things.", "gpt-4o", <<"u">>, <<>>, <<>>)

WsTree(cfg, env, a, m) == MkTree(cfg, env, a, None, FALSE, m)

WsTrees ==
    {WsTree(WsConfig, None, Some(<<ToolStmt("t", "Greet someone by name.")>>),
            Some(<<Greeter>>)),
     WsTree(WsConfig, None, Some(<<ToolStmt("t", "Greet someone by name.")>>),
            Some(<<Greeter, SlashGreeter>>)),
     WsTree(WsConfig, None, Some(<<ToolStmt("t", "Greet someone by name."), RaiseStmt>>),
            Some(<<Greeter>>)),
     WsTree(WsConfig, None, Some(<<ToolStmt("u", "Another tool.")>>),
            Some(<<Other>>)),
     WsTree(WsConfig, None, Some(<<ToolStmt("u", "Another tool.")>>), None),
     WsTree(None, None, Some(<<ToolStmt("t", "Greet someone by name.")>>),
            Some(<<Greeter>>))}

InitWorkspace ==
    /\ InitCommon
    /\ tree \in [Projects -> WsTrees]
    /\ environ = << >>

SpecWs == InitWorkspace /\ [][NextWorkspace]_vars

\* The same scan over projects that have .env files, one of which may fail
\* while it is imported, in a process whose environment already has values.
Claude == AgentStmt("Claude", "You answer.", "anthropic/claude", <<"t">>, <<>>, <<>>)

WsEnvFiles == {e \in EnvFiles : e = None \/ \A k \in DOMAIN e[1] : e[1][k] # None}

WsEnvirons ==
    {<< >>,
     [k \in {"K1"} |-> "a"],
     [k \in {"K1", PATCH_VAR} |-> ""]}

WsEnvTrees ==
    {WsTree(WsConfig, e, Some(<<ToolStmt("t", "Greet someone by name.")>>), Some(m)) :
        e \in WsEnvFiles,
        m \in {<<Greeter>>, <<Claude>>, <<Greeter, RaiseStmt>>}}

InitWorkspaceEnv ==
    /\ InitCommon
    /\ tree \in [Projects -> WsEnvTrees]
    /\ environ \in WsEnvirons

SpecWsEnv == InitWorkspaceEnv /\ [][NextWorkspace]_vars

(***************************************************************************)
(* What a project tree declares, read off the files and not off the        *)
(* registry: the statements of the source files in import order.           *)
(***************************************************************************)
RECURSIVE StmtsOf(_, _, _)
StmtsOf(t, p, order) ==
    IF order = <<>> THEN <<>>
    ELSE [i \in 1..Len(t.files[Head(order)]) |->
            [file |-> [project |-> p, path |-> Head(order)], stmt |-> t.files[Head(order)][i]]]
         \o StmtsOf(t, p, Tail(order))

\* A source file: not in a hidden, dependency or cache directory, no package init.
IsSourceFile(f) ==
    /\ PathName(f) # "__init__.py"
    /\ \A i \in 1..Len(f) :
          ~(SubSeq(f[i], 1, 1) = "." \/ f[i] \in {"venv", "env", "node_modules", "__pycache__"})

SourceStmts(t, p) ==
    LET e == ProjectConfig_load(t).entry
    IN StmtsOf(t, p, SortedPaths({f \in DOMAIN t.files : f # e /\ IsSourceFile(f)}) \o <<e>>)

LastDecl(stmts, op, n) ==
    stmts[CHOOSE i \in 1..Len(stmts) :
            /\ stmts[i].stmt.op = op
            /\ stmts[i].stmt.name = n
            /\ \A j \in (i + 1)..Len(stmts) :
                  ~(stmts[j].stmt.op = op /\ stmts[j].stmt.name = n)]

DeclaredNames(stmts, op) == {stmts[i].stmt.name : i \in {j \in 1..Len(stmts) : stmts[j].stmt.op = op}}

DeclaredTools(t, p) ==
    LET stmts == SourceStmts(t, p)
    IN {<<n, [kind |-> "tool", name |-> n,
              description |-> LastDecl(stmts, "tool", n).stmt.description,
              source_file |-> LastDecl(stmts, "tool", n).file,
              function_tool |-> n, project |-> None]>> : n \in DeclaredNames(stmts, "tool")}

DeclaredAgents(t, p) ==
    LET stmts == SourceStmts(t, p)
    IN {<<n, LET d == LastDecl(stmts, "agent", n)
             IN [kind |-> "agent", name |-> n, instructions |-> d.stmt.instructions,
                 model |-> d.stmt.model,
                 tools |-> d.stmt.lookup \o d.stmt.direct
                           \o [i \in 1..Len(d.stmt.builtin) |-> "builtin:" \o d.stmt.builtin[i]],
                 source_file |-> d.file, project |-> None]>> :
        n \in DeclaredNames(stmts, "agent")}

Range(q) == {q[i] : i \in 1..Len(q)}

ToolNamesIn(body, k) == {body[j].name : j \in {x \in 1..k : body[x].op = "tool"}}

RequiredFiles(t) ==
    {f \in DOMAIN t.files : f # ProjectConfig_load(t).entry /\ IsSourceFile(f)}

\* The tool names declared by the non-entry source files and by the statements
\* of the entry file before its k-th.
DeclaredBeforeEntryStmt(t, k) ==
    UNION {ToolNamesIn(t.files[f], Len(t.files[f])) : f \in RequiredFiles(t)}
    \cup ToolNamesIn(t.files[ProjectConfig_load(t).entry], k - 1)

RegistryView == to_dict(get_project_snapshot(registry), heap)

(***************************************************************************)
(* Claims about discover_project (SpecProject).                            *)
(***************************************************************************)

\* C6: discover_project imports every non-entry, non-package-init source file
\* outside hidden, dependency and cache directories, each once and in sorted
\* path order, before the entry file; the entry file is imported once and last.
\* A get_tools lookup in the entry file succeeds when the name is declared by
\* one of those files (or earlier in the entry file), and the entry file raises
\* ValueError only for a name that is not.
C6_ImportOrder ==
    (trace.op \in {"return", "raise"} /\ held.status # "FileNotFoundError") =>
        LET t == tree["p"]
            e == ProjectConfig_load(t).entry
            log == trace.log
            n == Len(log)
        IN /\ \A i \in 1..n :
                 log[i] = e => (i = n /\ Range(SubSeq(log, 1, n - 1)) = RequiredFiles(t))
           /\ \A i \in 1..n : log[i] # e => log[i] \in RequiredFiles(t)
           /\ \A i \in 1..n : \A j \in (i + 1)..n : log[j] # e => PathLess(log[i], log[j])
           /\ \A i \in 1..n : \A f \in RequiredFiles(t) :
                 (log[i] # e /\ PathLess(f, log[i])) => f \in Range(SubSeq(log, 1, i - 1))
           /\ trace.op = "return" =>
                 /\ n >= 1
                 /\ log[n] = e
                 /\ \A k \in 1..Len(t.files[e]) :
                       t.files[e][k].op = "agent" =>
                          Range(t.files[e][k].lookup) \subseteq DeclaredBeforeEntryStmt(t, k)
           /\ (trace.op = "raise" /\ held.status = "ValueError" /\ log[n] = e) =>
                 \E k \in 1..Len(t.files[e]) :
                    /\ t.files[e][k].op = "agent"
                    /\ ~(Range(t.files[e][k].lookup) \subseteq DeclaredBeforeEntryStmt(t, k))

C6_Witness ==
    /\ trace.op = "return"
    /\ Len(trace.log) >= 3
    /\ \E k \in 1..Len(tree["p"].files[trace.log[Len(trace.log)]]) :
          /\ tree["p"].files[trace.log[Len(trace.log)]][k].op = "agent"
          /\ tree["p"].files[trace.log[Len(trace.log)]][k].lookup # <<>>
    /\ PVenv \in DOMAIN tree["p"].files

\* C7: the Snapshot a successful discover_project returns holds exactly the
\* agents and tools that the source files declare as they are at that call,
\* with the metadata of the current declarations, whatever was discovered
\* or edited before.
C7_SnapshotIsCurrentSource ==
    trace.op = "return" =>
        /\ Range(held.view.tools) = DeclaredTools(tree["p"], "p")
        /\ Range(held.view.agents) = DeclaredAgents(tree["p"], "p")
        /\ Len(held.view.tools) = Cardinality(DeclaredTools(tree["p"], "p"))
        /\ Len(held.view.agents) = Cardinality(DeclaredAgents(tree["p"], "p"))
        /\ held.view.config = Some(ProjectConfig_load(tree["p"]))

C7_Witness ==
    /\ trace.op = "return"
    /\ trace.prev.status = "ok"
    /\ trace.prev.edited
    /\ \E x \in Range(trace.prev.view.tools) :
          /\ x[1] \notin {y[1] : y \in Range(held.view.tools)}
    /\ \E x \in Range(trace.prev.view.tools) : \E y \in Range(held.view.tools) :
          x[1] = y[1] /\ x[2].description # y[2].description

\* C8: two discover_project calls in a row on an unchanged project return
\* Snapshots with the same agents, tools, metadata and config.
C8_Idempotent ==
    (trace.op = "return" /\ trace.prev.status = "ok" /\ ~trace.prev.edited) =>
        held.view = trace.prev.view

C8_Witness ==
    /\ trace.op = "return"
    /\ trace.prev.status = "ok"
    /\ ~trace.prev.edited
    /\ Len(held.view.agents) > 0
    /\ Len(held.view.tools) > 1

\* C9: when a discover_project call has ended, by returning or by raising, the
\* Registry is empty or holds exactly the complete set of declarations of the
\* project.
C9_RegistryEmptyOrComplete ==
    trace.op \in {"return", "raise"} =>
        \/ registry = EmptyRegistry
        \/ /\ Range(RegistryView.tools) = DeclaredTools(tree["p"], "p")
           /\ Range(RegistryView.agents) = DeclaredAgents(tree["p"], "p")

\* C12: a discover_project call on a project whose configured entry file
\* does not exist ends by raising FileNotFoundError, returns no Snapshot and
\* has imported no source file of the project.
C12_MissingEntry ==
    (/\ trace.op \in {"return", "raise"}
     /\ ProjectConfig_load(tree["p"]).entry \notin DOMAIN tree["p"].files) =>
        /\ trace.op = "raise"
        /\ held.status = "FileNotFoundError"
        /\ held.snap = EmptySnapshot
        /\ trace.log = <<>>

\* The entry file is missing while other source files exist, after an earlier
\* call had succeeded.
C12_Witness ==
    /\ trace.op = "raise"
    /\ held.status = "FileNotFoundError"
    /\ PMain \notin DOMAIN tree["p"].files
    /\ RequiredFiles(tree["p"]) # {}
    /\ trace.prev.status = "ok"

\* The positions in the import order of the files that hold a raising statement.
RaisingIn(t, order) ==
    {i \in 1..Len(order) : \E k \in 1..Len(t.files[order[i]]) : t.files[order[i]][k].op = "raise"}

\* C13: when a source file of the project fails while it is imported, the
\* discover_project call ends by raising, with no Snapshot returned, and the
\* files it imported are those of the import order up to the first failing
\* file (a raising statement or a failed get_tools lookup): none after it,
\* the entry file included.
C13_ImportFailurePropagates ==
    (/\ trace.op \in {"return", "raise"}
     /\ ProjectConfig_load(tree["p"]).entry \in DOMAIN tree["p"].files) =>
        LET t == tree["p"]
            order == SortedPaths(RequiredFiles(t)) \o <<ProjectConfig_load(t).entry>>
            bad == RaisingIn(t, order)
        IN /\ bad # {} =>
                 /\ trace.op = "raise"
                 /\ held.status # "FileNotFoundError"
                 /\ held.snap = EmptySnapshot
                 /\ \A j \in bad : Len(trace.log) <= j
           /\ trace.op = "raise" =>
                 /\ held.snap = EmptySnapshot
                 /\ Len(trace.log) >= 1
                 /\ trace.log = SubSeq(order, 1, Len(trace.log))
                 /\ \A x \in Range(RegistryView.tools) \cup Range(RegistryView.agents) :
                       x[2].source_file.path \in Range(trace.log)

\* The first file of three fails: the later file and the entry file exist.
C13_Witness ==
    /\ trace.op = "raise"
    /\ held.status = "ImportError"
    /\ trace.log = <<PToolA>>
    /\ PZ \in DOMAIN tree["p"].files
    /\ PMain \in DOMAIN tree["p"].files

(***************************************************************************)
(* Claims about the environment cache (SpecEnv).                           *)
(***************************************************************************)

\* C3: on entry to project_env_context(p) every variable cached for p is set
\* in the process environment to p's value; when the block is left, normally
\* or by an exception, each of those variables has the value it had before
\* entry, and is unset if it was unset before entry.
C3_ContextAppliesAndRestores ==
    /\ trace.op = "enter" =>
          \A k \in DOMAIN get_project_env(project_envs, trace.project) :
             k \in DOMAIN environ /\ environ[k] = get_project_env(project_envs, trace.project)[k]
    /\ trace.op = "exit" =>
          \A k \in DOMAIN trace.frame.env_vars :
             IF k \in DOMAIN trace.frame.before
             THEN k \in DOMAIN environ /\ environ[k] = trace.frame.before[k]
             ELSE k \notin DOMAIN environ

\* The block raised, it had overwritten an empty value and an unset variable,
\* and the code inside had changed one of them again.
C3_Witness ==
    /\ trace.op = "exit"
    /\ trace.raised
    /\ \E k \in DOMAIN trace.frame.env_vars :
          k \in DOMAIN trace.frame.before /\ trace.frame.before[k] = ""
    /\ \E k \in DOMAIN trace.frame.env_vars : k \notin DOMAIN trace.frame.before
    /\ Len(ctx) = 1

(***************************************************************************)
(* Claims about discover_all_projects (SpecWs).                            *)
(***************************************************************************)
\* The indices of the successfully discovered projects that registered name n
\* in their agents (kind = "agents") or tools (kind = "tools").
Owners(snaps, kind, n) == {i \in 1..Len(snaps) : DictHas(snaps[i][2][kind], n)}

\* C1: in the Snapshot discover_all_projects returns, every entry whose name
\* was registered by two or more successfully discovered projects is found
\* under the key project_name/original_name, no entry is found under that bare
\* name, and every entry whose name was registered by exactly one project is
\* found under its bare name.
C1_CollisionRenaming ==
    trace.op = "ws_return" =>
        LET snaps == trace.project_snapshots
        IN \A kind \in {"agents", "tools"} : \A i \in 1..Len(snaps) :
              \A j \in 1..Len(snaps[i][2][kind]) :
                 LET n == snaps[i][2][kind][j][1]
                     oid == snaps[i][2][kind][j][2]
                     key == snaps[i][1] \o "/" \o n
                 IN IF Cardinality(Owners(snaps, kind, n)) >= 2
                    THEN /\ DictHas(held.snap[kind], key)
                         /\ DictGet(held.snap[kind], key) = oid
                         /\ ~DictHas(held.snap[kind], n)
                    ELSE /\ DictHas(held.snap[kind], n)
                         /\ DictGet(held.snap[kind], n) = oid

\* C2: in every Snapshot discover_all_projects returns, each name in the tools
\* of an agent entry is a key of the Snapshot's tools or a builtin: marker.
C2_SnapshotConsistent ==
    trace.op = "ws_return" =>
        \A i \in 1..Len(held.view.agents) :
           \A k \in 1..Len(held.view.agents[i][2].tools) :
              LET n == held.view.agents[i][2].tools[k]
              IN StartsWith(n, "builtin:") \/ DictHas(held.view.tools, n)

\* C5: when the discovery of a project raised, discover_all_projects still
\* returns a merged Snapshot, which holds exactly the entries of the projects
\* whose discovery succeeded and none declared by a failing project.
C5_FailingProjectSkipped ==
    (trace.op = "ws_return" /\ trace.failed # {}) =>
        /\ held.status = "ok"
        /\ SnapOids(held.snap) =
              UNION {SnapOids(trace.project_snapshots[i][2]) :
                        i \in 1..Len(trace.project_snapshots)}
        /\ \A x \in Range(held.view.agents) \cup Range(held.view.tools) :
              x[2].source_file.project \notin trace.failed

\* C38: in the Snapshot discover_all_projects returns, every entry of every
\* successfully discovered project is the value of exactly one key, and every
\* merged entry has its key as its name and the project that declared it as
\* its project tag.
C38_MergeLosesNothing ==
    trace.op = "ws_return" =>
        LET snaps == trace.project_snapshots
        IN \A kind \in {"agents", "tools"} :
              /\ \A i \in 1..Len(snaps) : \A j \in 1..Len(snaps[i][2][kind]) :
                    Cardinality({k \in 1..Len(held.snap[kind]) :
                                    held.snap[kind][k][2] = snaps[i][2][kind][j][2]}) = 1
              /\ \A k \in 1..Len(held.view[kind]) :
                    /\ held.view[kind][k][2].name = held.view[kind][k][1]
                    /\ held.view[kind][k][2].project =
                          Some(held.view[kind][k][2].source_file.project)
              /\ \A k1, k2 \in 1..Len(held.snap[kind]) :
                    held.snap[kind][k1][1] = held.snap[kind][k2][1] => k1 = k2

\* C10: the steps in which discover_all_projects tags and renames the entries
\* reached through the Snapshots of get_project_snapshot leave the results of
\* get_agent and get_tool of the Registry as they were.
C10_SnapshotMutationIsolated ==
    [][trace'.op \in {"ws_tag", "ws_return"} =>
          /\ \A n \in DictKeys(registry.agents) :
                get_agent(registry', heap', n) = get_agent(registry, heap, n)
          /\ \A n \in DictKeys(registry.tools) :
                get_tool(registry', heap', n) = get_tool(registry, heap, n)]_vars

(***************************************************************************)
(* Claims about the environment during discover_all_projects (SpecWsEnv).  *)
(***************************************************************************)
\* The variables a project's .env file gives a value, read off the file.
SecretVars(t) ==
    IF t.env = None THEN {} ELSE {k \in DOMAIN t.env[1] : t.env[1][k] # None}

SecretValue(t, k) == t.env[1][k][1]

LitellmDeclaredBefore(B) ==
    \E P \in Projects :
       /\ ProjectRank(P) < ProjectRank(B)
       /\ \E f \in DOMAIN tree[P].files : \E i \in 1..Len(tree[P].files[f]) :
             /\ tree[P].files[f][i].op = "agent"
             /\ Contains(tree[P].files[f][i].model, "/")
             /\ ~StartsWith(tree[P].files[f][i].model, "openai/")

MaxRegs == 4

RegNames == {"A", "B"}

NewAgentEntry(n) ==
    [kind |-> "agent", name |-> n, instructions |-> "Do stuff", model |-> "gpt-4o",
     tools |-> <<"t1">>, source_file |-> None, project |-> None]

NewToolEntry(n) ==
    [kind |-> "tool", name |-> n, description |-> "A tool", source_file |-> None,
     function_tool |-> None, project |-> None]

InitRegistry ==
    /\ registry = EmptyRegistry
    /\ heap = << >>
    /\ sys_modules = << >>
    /\ project_envs = << >>
    /\ ctx = <<>>
    /\ dp = DpIdle
    /\ ws = WsIdle
    /\ held = NoResult
    /\ daemon = DaemonIdle
    /\ server = ServerIdle
    /\ chat = ChatIdle
    /\ tree = << >>
    /\ environ = << >>
    /\ trace = [op |-> "init", log |-> <<>>]

RegAgent ==
    /\ Len(trace.log) < MaxRegs
    /\ \E n \in RegNames :
          LET h == Alloc(heap, NewAgentEntry(n))
              oid == NewOid(heap)
          IN /\ heap' = h
             /\ registry' = register_agent(registry, h, oid)
             /\ trace' = [op |-> "register_agent", log |-> Append(trace.log, <<"agents", n, oid>>)]
    /\ UNCHANGED <<chat, daemon, server, tree, sys_modules, environ, project_envs, ctx, dp, ws, held>>

RegTool ==
    /\ Len(trace.log) < MaxRegs
    /\ \E n \in RegNames :
          LET h == Alloc(heap, NewToolEntry(n))
              oid == NewOid(heap)
          IN /\ heap' = h
             /\ registry' = register_tool(registry, h, oid)
             /\ trace' = [op |-> "register_tool", log |-> Append(trace.log, <<"tools", n, oid>>)]
    /\ UNCHANGED <<chat, daemon, server, tree, sys_modules, environ, project_envs, ctx, dp, ws, held>>

RegClear ==
    /\ trace.log # <<>>
    /\ registry' = clear(registry)
    /\ heap' = << >>
    /\ trace' = [op |-> "clear", log |-> <<>>]
    /\ UNCHANGED <<chat, daemon, server, tree, sys_modules, environ, project_envs, ctx, dp, ws, held>>

NextRegistry == RegAgent \/ RegTool \/ RegClear

SpecRegistry == InitRegistry /\ [][NextRegistry]_vars

(***************************************************************************)
(* Claims about the Registry (SpecRegistry).                               *)
(***************************************************************************)
\* The registrations of trace.log made in mapping kind under name n.
RegsOf(kind, n) ==
    {i \in 1..Len(trace.log) : trace.log[i][1] = kind /\ trace.log[i][2] = n}

LastRegOf(kind, n) ==
    trace.log[CHOOSE i \in RegsOf(kind, n) : \A j \in RegsOf(kind, n) : j <= i][3]

\* C11: after any sequence of register_agent / register_tool / clear calls,
\* get_agent(n) and get_tool(n) return the entry most recently registered
\* under n since the last clear, None when there is none, and each mapping
\* of the Registry holds exactly one entry per registered name.
C11_LastWriteWins ==
    /\ \A n \in RegNames \cup {"NonExistent"} :
          /\ get_agent(registry, heap, n) =
                IF RegsOf("agents", n) = {} THEN None
                ELSE Some(heap[LastRegOf("agents", n)])
          /\ get_tool(registry, heap, n) =
                IF RegsOf("tools", n) = {} THEN None
                ELSE Some(heap[LastRegOf("tools", n)])
    /\ \A kind \in {"agents", "tools"} :
          /\ \A n \in RegNames :
                RegsOf(kind, n) # {} =>
                   /\ DictHas(registry[kind], n)
                   /\ DictGet(registry[kind], n) = LastRegOf(kind, n)
          /\ Len(registry[kind]) = Cardinality({n \in RegNames : RegsOf(kind, n) # {}})
          /\ Cardinality(DictKeys(registry[kind])) = Len(registry[kind])

\* The same name was registered twice as a tool and another name in between.
C11_Witness ==
    /\ Cardinality(RegsOf("tools", "A")) >= 2
    /\ RegsOf("tools", "B") # {}
    /\ RegsOf("agents", "A") # {}

(***************************************************************************)
(* daemon.py.  daemon.procs[pid] is a process: whether it is alive and     *)
(* whether it listens on its port.  daemon.files maps the PID files that   *)
(* exist to their content: <<info>> for the JSON of a PidInfo, <<>> for    *)
(* text that does not parse as one.  daemon.calls[c]                       *)
(* is the start_daemon or stop_daemon call that caller c is in.            *)
(***************************************************************************)
MaxPolls == 1

MaxProcs == 3

DaemonPort == 8321

DaemonIdentities == {None, Some("a")}

_pid_file_name(project) == IF project = None THEN "workspace.pid" ELSE project[1] \o ".pid"

is_process_alive(d, pid) == pid \in 1..Len(d.procs) /\ d.procs[pid].alive

_is_port_in_use(d, port) ==
    \E pid \in 1..Len(d.procs) :
       d.procs[pid].alive /\ d.procs[pid].listening /\ d.procs[pid].port = port

Unlink(files, f) == [x \in DOMAIN files \ {f} |-> files[x]]

\* Mutant of read_pid_info: the file of a dead process is left in place.
read_pid_info_keep(d, project) ==
    LET f == _pid_file_name(project)
    IN IF f \notin DOMAIN d.files
       THEN [info |-> None, files |-> d.files]
       ELSE IF d.files[f] = <<>>
       THEN [info |-> None, files |-> Unlink(d.files, f)]
       ELSE IF ~is_process_alive(d, d.files[f][1].pid)
       THEN [info |-> None, files |-> d.files]
       ELSE [info |-> Some(d.files[f][1]), files |-> d.files]

\* read_pid_info: the PidInfo it returns and the PID files it leaves.
read_pid_info(d, project) ==
    LET f == _pid_file_name(project)
    IN IF f \notin DOMAIN d.files
       THEN [info |-> None, files |-> d.files]
       ELSE IF d.files[f] = <<>>
       THEN [info |-> None, files |-> Unlink(d.files, f)]
       ELSE IF ~is_process_alive(d, d.files[f][1].pid)
       THEN [info |-> None, files |-> Unlink(d.files, f)]
       ELSE [info |-> Some(d.files[f][1]), files |-> d.files]

_write_pid_info(files, project, info) ==
    [x \in DOMAIN files \cup {_pid_file_name(project)} |->
        IF x = _pid_file_name(project) THEN <<info>> ELSE files[x]]

PidInfo(pid, port, project) ==
    [pid |-> pid, port |-> port,
     project |-> IF project = None THEN "workspace" ELSE project[1],
     cwd |-> IF project = None THEN "" ELSE ProjectDir(project[1])]

\* Mutant of _wait_for_port: a live worker is taken for a ready one.
_wait_for_port_eager(d, port, pid, polls) ==
    IF polls >= MaxPolls THEN "timeout"
    ELSE IF ~is_process_alive(d, pid) THEN "dead"
    ELSE "ready"

\* One turn of the loop of _wait_for_port: the deadline has passed, the
\* worker is dead, the port accepts connections, or it sleeps.
_wait_for_port(d, port, pid, polls) ==
    IF polls >= MaxPolls THEN "timeout"
    ELSE IF ~is_process_alive(d, pid) THEN "dead"
    ELSE IF _is_port_in_use(d, port) THEN "ready"
    ELSE "sleep"

\* Mutant of start_daemon_spawn: the PID record is written at the spawn.
start_daemon_spawn_write(d, c, project, port) ==
    LET pid == Len(d.procs) + 1
    IN [d EXCEPT !.procs = Append(@, [alive |-> TRUE, listening |-> FALSE, port |-> port]),
                 !.files = _write_pid_info(@, project, PidInfo(pid, port, project)),
                 !.calls[c] = [op |-> "start", project |-> project, port |-> port,
                               pid |-> pid, polls |-> 0]]

\* start_daemon, lines 132-153: the worker is spawned.
start_daemon_spawn(d, c, project, port) ==
    LET pid == Len(d.procs) + 1
    IN [d EXCEPT !.procs = Append(@, [alive |-> TRUE, listening |-> FALSE, port |-> port]),
                 !.calls[c] = [op |-> "start", project |-> project, port |-> port,
                               pid |-> pid, polls |-> 0]]

\* start_daemon, lines 156-182, after one turn of the readiness poll.
start_daemon_wait(d, c, outcome) ==
    LET call == d.calls[c]
    IN CASE outcome = "sleep" -> [d EXCEPT !.calls[c].polls = @ + 1]
         [] outcome = "ready" ->
               [d EXCEPT !.files = _write_pid_info(@, call.project,
                                                   PidInfo(call.pid, call.port, call.project)),
                         !.calls[c] = CallIdle]
         [] OTHER -> [d EXCEPT !.calls[c] = CallIdle]

\* start_daemon is called: the port check of lines 126-130, then the spawn.
StartDaemonOn(identities) ==
    /\ \E c \in Callers : \E project \in identities :
          /\ daemon.calls[c].op = "idle"
          /\ IF _is_port_in_use(daemon, DaemonPort)
             THEN /\ daemon' = daemon
                  /\ trace' = [op |-> "start_call", caller |-> c, project |-> project,
                               raised |-> "RuntimeError"]
             ELSE /\ Len(daemon.procs) < MaxProcs
                  /\ daemon' = start_daemon_spawn(daemon, c, project, DaemonPort)
                  /\ trace' = [op |-> "start_call", caller |-> c, project |-> project,
                               raised |-> ""]
    /\ UNCHANGED <<chat, tree, registry, heap, sys_modules, environ, project_envs, ctx, dp, ws,
                   held, server>>

StartDaemon == StartDaemonOn(DaemonIdentities)

\* One turn of the readiness poll of a start_daemon call, and what follows it.
StartDaemonWait ==
    /\ \E c \in Callers :
          /\ daemon.calls[c].op = "start"
          /\ LET call == daemon.calls[c]
                 outcome == _wait_for_port(daemon, call.port, call.pid, call.polls)
             IN /\ daemon' = start_daemon_wait(daemon, c, outcome)
                /\ trace' = CASE outcome = "sleep" ->
                                    [op |-> "start_poll", caller |-> c]
                              [] outcome = "ready" ->
                                    [op |-> "start_return", caller |-> c,
                                     info |-> PidInfo(call.pid, call.port, call.project),
                                     project |-> call.project]
                              [] OTHER ->
                                    [op |-> "start_raise", caller |-> c,
                                     raised |-> "RuntimeError", project |-> call.project]
    /\ UNCHANGED <<chat, tree, registry, heap, sys_modules, environ, project_envs, ctx, dp, ws,
                   held, server>>

\* A spawned worker binds its port, or exits when the port is taken.
WorkerBind ==
    /\ \E pid \in 1..Len(daemon.procs) :
          /\ daemon.procs[pid].alive
          /\ ~daemon.procs[pid].listening
          /\ daemon' = IF _is_port_in_use(daemon, daemon.procs[pid].port)
                       THEN [daemon EXCEPT !.procs[pid].alive = FALSE]
                       ELSE [daemon EXCEPT !.procs[pid].listening = TRUE]
          /\ trace' = [op |-> "bind"]
    /\ UNCHANGED <<chat, tree, registry, heap, sys_modules, environ, project_envs, ctx, dp, ws,
                   held, server>>

\* A process exits, of itself or on a termination signal.
ProcExit ==
    /\ \E pid \in 1..Len(daemon.procs) :
          /\ daemon.procs[pid].alive
          /\ daemon' = [daemon EXCEPT !.procs[pid].alive = FALSE,
                                      !.procs[pid].listening = FALSE]
          /\ trace' = [op |-> "exit"]
    /\ UNCHANGED <<chat, tree, registry, heap, sys_modules, environ, project_envs, ctx, dp, ws,
                   held, server>>

\* stop_daemon, lines 187-194: nothing to stop, or the signal is sent.
stop_daemon_kill(d, c, project) ==
    LET r == read_pid_info(d, project)
    IN IF r.info = None
       THEN [d EXCEPT !.files = r.files]
       ELSE [d EXCEPT !.calls[c] = [op |-> "stop", project |-> project,
                                     port |-> r.info[1].port, pid |-> r.info[1].pid,
                                     polls |-> 0]]

\* Mutant of stop_daemon_wait: the PID file is kept when the process is still
\* alive at the end of the poll window.
stop_daemon_wait_keep(d, c) ==
    LET call == d.calls[c]
    IN IF ~is_process_alive(d, call.pid)
       THEN [d EXCEPT !.files = Unlink(@, _pid_file_name(call.project)),
                      !.calls[c] = CallIdle]
       ELSE IF call.polls >= MaxPolls
       THEN [d EXCEPT !.calls[c] = CallIdle]
       ELSE [d EXCEPT !.calls[c].polls = @ + 1]

\* stop_daemon, lines 196-206, one turn of the exit poll: the process is gone
\* or the window is over, and the PID file is removed; or it sleeps.
stop_daemon_wait(d, c) ==
    LET call == d.calls[c]
    IN IF ~is_process_alive(d, call.pid) \/ call.polls >= MaxPolls
       THEN [d EXCEPT !.files = Unlink(@, _pid_file_name(call.project)),
                      !.calls[c] = CallIdle]
       ELSE [d EXCEPT !.calls[c].polls = @ + 1]

ReadPidInfoOn(identities) ==
    /\ \E c \in {1} : \E project \in identities :
          /\ daemon.calls[c].op = "idle"
          /\ daemon' = [daemon EXCEPT !.files = read_pid_info(daemon, project).files]
          /\ trace' = [op |-> "read", caller |-> c, project |-> project,
                       file |-> IF _pid_file_name(project) \in DOMAIN daemon.files
                                THEN Some(daemon.files[_pid_file_name(project)])
                                ELSE None,
                       info |-> read_pid_info(daemon, project).info]
    /\ UNCHANGED <<chat, tree, registry, heap, sys_modules, environ, project_envs, ctx, dp, ws,
                   held, server>>

StopDaemonOn(identities) ==
    /\ \E c \in {1} : \E project \in identities :
          /\ daemon.calls[c].op = "idle"
          /\ daemon' = stop_daemon_kill(daemon, c, project)
          /\ trace' = IF daemon'.calls[c].op = "stop"
                      THEN [op |-> "stop_kill", caller |-> c, project |-> project,
                            pid |-> daemon'.calls[c].pid]
                      ELSE [op |-> "stop_return", caller |-> c, project |-> project,
                            result |-> FALSE]
    /\ UNCHANGED <<chat, tree, registry, heap, sys_modules, environ, project_envs, ctx, dp, ws,
                   held, server>>

ReadPidInfo == ReadPidInfoOn(DaemonIdentities)

StopDaemon == StopDaemonOn(DaemonIdentities)

StopDaemonWait ==
    /\ \E c \in Callers :
          /\ daemon.calls[c].op = "stop"
          /\ daemon' = stop_daemon_wait(daemon, c)
          /\ trace' = IF daemon'.calls[c].op = "stop"
                      THEN [op |-> "stop_poll", caller |-> c]
                      ELSE [op |-> "stop_return", caller |-> c,
                            project |-> daemon.calls[c].project,
                            result |-> TRUE]
    /\ UNCHANGED <<chat, tree, registry, heap, sys_modules, environ, project_envs, ctx, dp, ws,
                   held, server>>

\* A machine on which an earlier daemon may have left a process and PID files.
\* Caller 1 starts, stops and reads; caller 2 is a second, concurrent start.
DaemonProcs ==
    {<<>>,
     <<[alive |-> TRUE, listening |-> TRUE, port |-> DaemonPort]>>,
     <<[alive |-> FALSE, listening |-> FALSE, port |-> DaemonPort]>>}

DaemonFiles(procs) ==
    {files \in UNION {[{_pid_file_name(project) : project \in S} ->
                         {<<>>} \cup {<<PidInfo(1, DaemonPort, project)>> :
                                        project \in DaemonIdentities}] :
                         S \in SUBSET DaemonIdentities} :
        \A project \in DaemonIdentities :
           LET f == _pid_file_name(project)
           IN (f \in DOMAIN files /\ files[f] # <<>>) =>
                 (procs # <<>> /\ files[f] = <<PidInfo(1, DaemonPort, project)>>)}

InitDaemon ==
    /\ registry = EmptyRegistry
    /\ heap = << >>
    /\ sys_modules = << >>
    /\ project_envs = << >>
    /\ ctx = <<>>
    /\ dp = DpIdle
    /\ ws = WsIdle
    /\ held = NoResult
    /\ server = ServerIdle
    /\ chat = ChatIdle
    /\ tree = << >>
    /\ environ = << >>
    /\ \E procs \in DaemonProcs : \E files \in DaemonFiles(procs) :
          daemon = [DaemonIdle EXCEPT !.procs = procs, !.files = files]
    /\ trace = [op |-> "init"]

NextDaemon ==
    StartDaemon \/ StartDaemonWait \/ WorkerBind \/ ProcExit \/ ReadPidInfo \/ StopDaemon
    \/ StopDaemonWait

SpecDaemon == InitDaemon /\ [][NextDaemon]_vars

(***************************************************************************)
(* Claims about the daemon (SpecDaemon).  trace' is the observation of the *)
(* step: which call it belongs to and what the call raised or returned.    *)
(***************************************************************************)

\* C14: start_daemon called while the port is bound raises RuntimeError and
\* spawns no process, and called while the port is free it raises nothing at
\* the call; it returns a PidInfo only from a turn of the readiness poll in
\* which its worker was alive and the port accepted connections.
C14_ReadinessGate ==
    [][ /\ trace'.op = "start_call" =>
              /\ _is_port_in_use(daemon, DaemonPort) <=> trace'.raised = "RuntimeError"
              /\ _is_port_in_use(daemon, DaemonPort) =>
                    /\ daemon'.procs = daemon.procs
                    /\ daemon'.calls[trace'.caller].op = "idle"
              /\ ~_is_port_in_use(daemon, DaemonPort) =>
                    /\ Len(daemon'.procs) = Len(daemon.procs) + 1
                    /\ daemon'.calls[trace'.caller].pid = Len(daemon'.procs)
        /\ trace'.op = "start_return" =>
              /\ trace'.info.pid = daemon.calls[trace'.caller].pid
              /\ trace'.info.port = daemon.calls[trace'.caller].port
              /\ is_process_alive(daemon, trace'.info.pid)
              /\ _is_port_in_use(daemon, trace'.info.port)
      ]_vars

C14_Witness ==
    /\ trace.op = "start_return"
    /\ daemon.procs[trace.info.pid].listening
    /\ \E pid \in 1..Len(daemon.procs) : ~daemon.procs[pid].alive

\* C15: start_daemon writes no PID file at the call, during the poll or when
\* it raises; it raises RuntimeError when the worker died or the poll timed
\* out; the only write is the PidInfo of its own worker, under its identity,
\* in the step in which the poll succeeded.
C15_PidAfterReadiness ==
    [][ /\ trace'.op \in {"start_call", "start_poll", "start_raise"} =>
              daemon'.files = daemon.files
        /\ trace'.op = "start_raise" =>
              /\ trace'.raised = "RuntimeError"
              /\ \/ ~is_process_alive(daemon, daemon.calls[trace'.caller].pid)
                 \/ daemon.calls[trace'.caller].polls >= MaxPolls
        /\ trace'.op = "start_return" =>
              /\ daemon.calls[trace'.caller].polls < MaxPolls
              /\ daemon'.files = _write_pid_info(daemon.files, trace'.project, trace'.info)
      ]_vars

C15_Witness ==
    /\ trace.op = "start_raise"
    /\ _pid_file_name(trace.project) \in DOMAIN daemon.files
    /\ \E project \in DaemonIdentities : _pid_file_name(project) \notin DOMAIN daemon.files

\* C36: when start_daemon returns, the process of the PidInfo it returns and
\* has written is alive and listens on the port.  (One process listens on a
\* port: if two interleaved calls both return while the first worker still
\* listens, the second one returns a pid that does not.)
C36_PidIsListener ==
    [][trace'.op = "start_return" =>
          LET info == trace'.info
          IN /\ daemon'.files[_pid_file_name(trace'.project)] = <<info>>
             /\ daemon'.procs[info.pid].alive
             /\ daemon'.procs[info.pid].listening
             /\ daemon'.procs[info.pid].port = info.port
      ]_vars

\* C37: when start_daemon raises after the spawn, the worker it spawned is
\* not alive.
C37_NoWorkerLeftBehind ==
    [][trace'.op = "start_raise" =>
          ~is_process_alive(daemon', daemon.calls[trace'.caller].pid)
      ]_vars

\* The half of C37 that holds: a start_daemon that raised wrote no PID file.
RaiseWritesNoRecord ==
    [][trace'.op = "start_raise" => daemon'.files = daemon.files]_vars

\* C16: read_pid_info of an identity whose PID file records a dead process
\* returns None and removes the file; when the recorded process is alive it
\* returns the record and leaves the file; when there is no file it returns
\* None; the PID files of other identities are never touched.
C16_ReadPidInfo ==
    [][ trace'.op = "read" =>
           LET f == _pid_file_name(trace'.project)
           IN /\ f \notin DOMAIN daemon.files =>
                    /\ trace'.info = None
                    /\ daemon'.files = daemon.files
              /\ (f \in DOMAIN daemon.files /\ daemon.files[f] # <<>>) =>
                    IF is_process_alive(daemon, daemon.files[f][1].pid)
                    THEN /\ trace'.info = Some(daemon.files[f][1])
                         /\ daemon'.files = daemon.files
                    ELSE /\ trace'.info = None
                         /\ f \notin DOMAIN daemon'.files
              /\ \A g \in DOMAIN daemon.files \ {f} :
                    g \in DOMAIN daemon'.files /\ daemon'.files[g] = daemon.files[g]
              /\ DOMAIN daemon'.files \subseteq DOMAIN daemon.files
              /\ daemon'.procs = daemon.procs
      ]_vars

\* A read that found the record of a dead process, written by a start_daemon.
C16_Witness ==
    /\ trace.op = "read"
    /\ trace.file # None
    /\ trace.file[1] # <<>>
    /\ trace.file[1][1].pid > 1
    /\ ~is_process_alive(daemon, trace.file[1][1].pid)
    /\ trace.info = None
    /\ _pid_file_name(trace.project) \notin DOMAIN daemon.files

\* C17: stop_daemon of an identity with no live daemon on record returns False
\* at once, having signalled nothing; otherwise it signals the recorded pid
\* and returns True after the exit poll; when it returns, either way, the
\* identity has no PID file, also when the process is still alive.
C17_StopDaemon ==
    [][ LET f == _pid_file_name(trace'.project)
            c == trace'.caller
        IN /\ trace'.op = "stop_kill" =>
                 /\ daemon.calls[c].op = "idle"
                 /\ f \in DOMAIN daemon.files /\ daemon.files[f] # <<>>
                 /\ trace'.pid = daemon.files[f][1].pid
                 /\ is_process_alive(daemon, trace'.pid)
                 /\ daemon'.calls[c].pid = trace'.pid
           /\ (trace'.op = "stop_return" /\ ~trace'.result) =>
                 /\ daemon.calls[c].op = "idle"
                 /\ read_pid_info(daemon, trace'.project).info = None
                 /\ f \notin DOMAIN daemon'.files
                 /\ daemon'.procs = daemon.procs
           /\ (trace'.op = "stop_return" /\ trace'.result) =>
                 /\ daemon.calls[c].op = "stop"
                 /\ daemon.calls[c].project = trace'.project
                 /\ \/ ~is_process_alive(daemon, daemon.calls[c].pid)
                    \/ daemon.calls[c].polls >= MaxPolls
                 /\ f \notin DOMAIN daemon'.files
           /\ trace'.op = "stop_poll" =>
                 /\ is_process_alive(daemon, daemon.calls[c].pid)
                 /\ daemon'.files = daemon.files
      ]_vars

\* A stop_daemon that returned True while every process, the one it
\* signalled included, is still alive.
C17_Witness ==
    /\ trace.op = "stop_return"
    /\ trace.result
    /\ Len(daemon.procs) >= 1
    /\ \A pid \in 1..Len(daemon.procs) : daemon.procs[pid].alive
    /\ _pid_file_name(trace.project) \notin DOMAIN daemon.files

(***************************************************************************)
(* The Dev Server (app.py) in single-project mode with its file watcher    *)
(* (watcher.py).  Discovery is synchronous: while discover_project runs,   *)
(* the event loop serves no request and the watcher task does not run.     *)
(* held is the module global _snapshot.                                    *)
(***************************************************************************)
ConfigPath == <<"klisk.config.yaml">>

EnvPath == <<".env">>

\* Path.suffix of a file name: from its last dot, a leading dot apart.
Suffix(name) ==
    LET dots == {i \in 2..Len(name) : SubSeq(name, i, i) = "."}
    IN IF dots = {} THEN ""
       ELSE SubSeq(name, CHOOSE i \in dots : \A j \in dots : j <= i, Len(name))

_is_relevant(path) ==
    /\ ~\E i \in 1..Len(path) :
          \/ SubSeq(path[i], 1, 1) = "."
          \/ path[i] \in {"__pycache__", "node_modules", ".venv"}
    /\ Suffix(path[Len(path)]) \in {".py", ".yaml", ".yml"}

\* Mutant of start_watcher_flags: a filtered source file counts as a change
\* of source code.
start_watcher_flags_unfiltered(changes) ==
    [has_relevant |-> \E path \in changes : _is_relevant(path),
     py_changed |-> \E path \in changes : Suffix(path[Len(path)]) = ".py"]

\* start_watcher, lines 23-31: the two flags computed from a batch.
start_watcher_flags(changes) ==
    [has_relevant |-> \E path \in changes : _is_relevant(path),
     py_changed |-> \E path \in changes :
                       _is_relevant(path) /\ Suffix(path[Len(path)]) = ".py"]

\* The number of positional arguments start_watcher passes to on_change.
OnChangeArgs == 1

\* The number of parameters _on_file_change declares.
OnFileChangeParams == 0

\* Mutant of discovered_or_error: a failed discovery leaves the old Snapshot.
discovered_or_error_keep(d, hd) ==
    IF d.pc = "done" THEN d.snap ELSE hd.snap

\* create_app 176-190 and _on_file_change 444-452: the Snapshot assigned to
\* _snapshot when the discovery returned, and when it raised.
discovered_or_error(d, hd) ==
    IF d.pc = "done" THEN d.snap
    ELSE [EmptySnapshot EXCEPT !.config = Some([error |-> d.exc])]

\* Mutant of get_snapshot: the Snapshot built at startup is served.
get_snapshot_captured(hd, h, sv) == sv.first[1]

\* get_project, get_agents, ... and the lambda of _handle_chat read the
\* global at call time; the response carries the Snapshot by value.
get_snapshot(hd, h, sv) == to_dict(hd.snap, h)

\* The paths whose content differs between two trees.
ChangedPaths(t1, t2) ==
    {f \in Paths : \/ (f \in DOMAIN t1.files) # (f \in DOMAIN t2.files)
                    \/ /\ f \in DOMAIN t1.files
                       /\ f \in DOMAIN t2.files
                       /\ t1.files[f] # t2.files[f]}
    \cup (IF t1.cfg # t2.cfg THEN {ConfigPath} ELSE {})
    \cup (IF t1.env # t2.env THEN {EnvPath} ELSE {})

\* The project has a tool file and an entry file; a config that names
\* venv/x.py as the entry makes the discovery fail, as does a raising tool file.
SvTrees ==
    {MkTree(cfg, env, a, None, FALSE, Some(<<Greeter>>)) :
        cfg \in PjConfigs, env \in {None, Some([k \in {"K1"} |-> Some("a")])},
        a \in PjBodiesA}

InitServer ==
    /\ InitCommon
    /\ \E t \in SvTrees : tree = [p \in {"p"} |-> t]
    /\ environ = << >>

\* create_app(project_dir), lines 168-186: the discovery at startup begins.
SvCreateApp ==
    /\ server.mode = "none"
    /\ DpBegin("p")
    /\ server' = [server EXCEPT !.mode = "starting"]
    /\ heap' = Collect(heap, HeapRoots(registry', dp', ws, held))
    /\ trace' = [op |-> "create_app"]
    /\ UNCHANGED <<chat, daemon, tree, environ, project_envs, ctx, ws, held>>

\* create_app, lines 185-197: the discovery returned or raised, _snapshot is
\* assigned and the lifespan starts the watcher task.
SvStarted ==
    /\ server.mode = "starting"
    /\ dp.pc \in {"done", "raised"}
    /\ LET snap == discovered_or_error(dp, held)
       IN /\ held' = [status |-> "ok", project |-> dp.project, snap |-> snap,
                      view |-> to_dict(snap, heap), edited |-> FALSE]
          /\ server' = [server EXCEPT !.mode = "single", !.watcher = "watching",
                                      !.first = Some(to_dict(snap, heap))]
    /\ dp' = DpIdle
    /\ heap' = Collect(heap, HeapRoots(registry, dp', ws, held'))
    /\ trace' = [op |-> "started", raised |-> dp.exc, prev |-> held.view]
    /\ UNCHANGED <<chat, daemon, tree, registry, sys_modules, environ, project_envs, ctx, ws>>

\* The user edits one file, the config or .env of the project; a running
\* watcher will see the changed path in its next batch.
SvEdit ==
    /\ server.mode = "single"
    /\ dp.pc = "idle"
    /\ \E t \in SvTrees :
          /\ TreeDiff(tree["p"], t) = 1
          /\ tree' = [tree EXCEPT !["p"] = t]
          /\ server' = IF server.watcher = "watching"
                       THEN [server EXCEPT !.pending = @ \cup ChangedPaths(tree["p"], t)]
                       ELSE server
    /\ trace' = [op |-> "edit"]
    /\ UNCHANGED <<chat, daemon, registry, heap, sys_modules, environ, project_envs, ctx, dp, ws,
                   held>>

\* start_watcher, lines 22-33, one turn of the loop: awatch yields the batch;
\* a batch with a relevant path calls on_change(py_changed).  The call binds
\* its argument to the parameters of _on_file_change before the body runs.
SvWatcherBatch ==
    /\ server.mode = "single"
    /\ server.watcher = "watching"
    /\ server.pending # {}
    /\ dp.pc = "idle"
    /\ LET flags == start_watcher_flags(server.pending)
       IN IF ~flags.has_relevant
          THEN /\ server' = [server EXCEPT !.pending = {}]
               /\ trace' = [op |-> "batch", changes |-> server.pending, called |-> FALSE,
                            arg |-> FALSE, raised |-> ""]
               /\ UNCHANGED <<registry, heap, sys_modules, dp>>
          ELSE IF OnChangeArgs # OnFileChangeParams
          THEN /\ server' = [server EXCEPT !.pending = {}, !.watcher = "failed"]
               /\ trace' = [op |-> "batch", changes |-> server.pending, called |-> TRUE,
                            arg |-> flags.py_changed, raised |-> "TypeError"]
               /\ UNCHANGED <<registry, heap, sys_modules, dp>>
          ELSE /\ DpBegin("p")
               /\ server' = [server EXCEPT !.pending = {}, !.mode = "reloading"]
               /\ heap' = Collect(heap, HeapRoots(registry', dp', ws, held))
               /\ trace' = [op |-> "batch", changes |-> server.pending, called |-> TRUE,
                            arg |-> flags.py_changed, raised |-> ""]
    /\ UNCHANGED <<chat, daemon, tree, environ, project_envs, ctx, ws, held>>

\* _on_file_change() awaited as it is declared, with no argument: lines
\* 443-448, the re-discovery begins.
SvOnFileChange ==
    /\ server.mode = "single"
    /\ DpBegin("p")
    /\ server' = [server EXCEPT !.mode = "reloading"]
    /\ heap' = Collect(heap, HeapRoots(registry', dp', ws, held))
    /\ trace' = [op |-> "reload_call"]
    /\ UNCHANGED <<chat, daemon, tree, environ, project_envs, ctx, ws, held>>

\* _on_file_change, lines 444-457: the re-discovery returned or raised,
\* _snapshot is assigned and serialized; with no subscriber the callback
\* returns, otherwise the send to the first one is started.
SvReloaded ==
    /\ server.mode = "reloading"
    /\ dp.pc \in {"done", "raised"}
    /\ LET snap == discovered_or_error(dp, held)
       IN held' = [status |-> "ok", project |-> dp.project, snap |-> snap,
                   view |-> to_dict(snap, heap), edited |-> FALSE]
    /\ server' = IF server.clients = <<>>
                 THEN [server EXCEPT !.mode = "single", !.reloaded = TRUE]
                 ELSE [server EXCEPT !.mode = "pushing", !.reloaded = TRUE,
                                     !.push = [PushIdle EXCEPT
                                                 !.i = 1, !.cur = server.clients[1],
                                                 !.subs = Range(server.clients)]]
    /\ dp' = DpIdle
    /\ heap' = Collect(heap, HeapRoots(registry, dp', ws, held'))
    /\ trace' = [op |-> "reloaded", raised |-> dp.exc, prev |-> held.view]
    /\ UNCHANGED <<chat, daemon, tree, registry, sys_modules, environ, project_envs, ctx, ws>>

\* list.remove(x) for a list without duplicates; ValueError when x is absent.
ListRemove(list, x) == SelectSeq(list, LAMBDA e : e # x)

\* _on_file_change, lines 461-462: the sockets whose send failed are removed,
\* in order, until one is not in the list any more.
RECURSIVE prune_disconnected(_, _)
prune_disconnected(clients, disconnected) ==
    IF disconnected = <<>> THEN [clients |-> clients, exc |-> ""]
    ELSE IF Head(disconnected) \notin Range(clients)
    THEN [clients |-> clients, exc |-> "ValueError"]
    ELSE prune_disconnected(ListRemove(clients, Head(disconnected)), Tail(disconnected))

\* _on_file_change, lines 456-462, from one await to the next: the pending
\* send_text completes (it fails on a closed connection); then the list
\* iterator yields the element at its index and the next send is started, or
\* the iterator is exhausted, the failed sockets are removed and the callback
\* returns, or list.remove raises.
SvPushStep ==
    /\ server.mode = "pushing"
    /\ LET c == server.push.cur
           ok == server.conns[c] = "open"
           sent == Append(server.push.sent, [client |-> c, ok |-> ok])
           disconnected == IF ok THEN server.push.disconnected
                           ELSE Append(server.push.disconnected, c)
           r == prune_disconnected(server.clients, disconnected)
       IN IF server.push.i < Len(server.clients)
          THEN /\ server' = [server EXCEPT
                                !.push.i = @ + 1,
                                !.push.cur = server.clients[server.push.i + 1],
                                !.push.sent = sent,
                                !.push.disconnected = disconnected]
               /\ trace' = [op |-> "push_send", client |-> c, ok |-> ok]
          ELSE /\ server' = [server EXCEPT !.mode = "single", !.clients = r.clients,
                                           !.push = PushIdle]
               /\ trace' = [op |-> "pushed", raised |-> r.exc, subs |-> server.push.subs,
                            sent |-> sent, before |-> server.clients]
    /\ UNCHANGED <<chat, daemon, tree, registry, heap, sys_modules, environ, project_envs, ctx, dp,
                   ws, held>>

\* _handle_reload, lines 433-434: a client connects to the reload socket.
SvSubscribe ==
    /\ server.mode \in {"single", "pushing"}
    /\ \E c \in Sockets :
          /\ server.conns[c] = "none"
          /\ server' = [server EXCEPT !.conns[c] = "open", !.clients = Append(@, c)]
          /\ trace' = [op |-> "subscribe", client |-> c]
    /\ UNCHANGED <<chat, daemon, tree, registry, heap, sys_modules, environ, project_envs, ctx, dp,
                   ws, held>>

\* A subscribed client closes its connection.
SvClientClose ==
    /\ server.mode \in {"single", "pushing"}
    /\ \E c \in Sockets :
          /\ server.conns[c] = "open"
          /\ server' = [server EXCEPT !.conns[c] = "closed"]
          /\ trace' = [op |-> "close", client |-> c]
    /\ UNCHANGED <<chat, daemon, tree, registry, heap, sys_modules, environ, project_envs, ctx, dp,
                   ws, held>>

\* _handle_reload, lines 435-439: receive_text raises WebSocketDisconnect and
\* the handler removes its socket from _reload_clients.
SvHandlerDisconnect ==
    /\ server.mode \in {"single", "pushing"}
    /\ \E c \in Sockets :
          /\ server.conns[c] = "closed"
          /\ server' = [server EXCEPT !.conns[c] = "gone",
                                      !.clients = ListRemove(@, c)]
          /\ trace' = [op |-> "disconnect", client |-> c,
                       raised |-> IF c \in Range(server.clients) THEN "" ELSE "ValueError"]
    /\ UNCHANGED <<chat, daemon, tree, registry, heap, sys_modules, environ, project_envs, ctx, dp,
                   ws, held>>

\* An HTTP API request or a chat message is handled.
SvRequest ==
    /\ server.mode = "single"
    /\ dp.pc = "idle"
    /\ \E kind \in {"api", "chat"} :
          trace' = [op |-> "request", kind |-> kind,
                    response |-> get_snapshot(held, heap, server)]
    /\ UNCHANGED <<chat, daemon, server, tree, registry, heap, sys_modules, environ, project_envs,
                   ctx, dp, ws, held>>

NextServer ==
    SvCreateApp \/ DpImportNext \/ DpImportEntry \/ SvStarted \/ SvEdit \/ SvWatcherBatch
    \/ SvOnFileChange \/ SvReloaded \/ SvRequest

SpecServer == InitServer /\ [][NextServer]_vars

(***************************************************************************)
(* Claims about the Dev Server (SpecServer).                               *)
(***************************************************************************)

\* C18: each time the watcher reports a batch with a relevant path to the
\* change callback, the callback is entered (the re-discovery begins, to end
\* with a new held Snapshot) and the watcher task keeps watching.
C18_WatcherReloads ==
    [][ (trace'.op = "batch" /\ trace'.called) =>
           /\ trace'.raised = ""
           /\ server'.mode = "reloading"
           /\ server'.watcher = "watching"
      ]_vars

\* C19: when the discovery run at startup or by _on_file_change raises, the
\* exception is caught, the held Snapshot becomes one with no agents, no
\* tools and a config with an error key, whatever was held before, and the
\* server goes on serving it.
C19_DiscoveryFailureHandled ==
    [][ (trace'.op \in {"started", "reloaded"} /\ dp.pc = "raised") =>
           /\ trace'.raised = dp.exc /\ dp.exc # ""
           /\ held'.snap.agents = EmptyDict
           /\ held'.snap.tools = EmptyDict
           /\ held'.snap.config # None
           /\ DOMAIN held'.snap.config[1] = {"error"}
           /\ get_snapshot(held', heap', server') = to_dict(held'.snap, << >>)
           /\ server'.mode = "single"
           /\ server'.watcher = IF trace'.op = "started" THEN "watching" ELSE server.watcher
      ]_vars

\* A reload whose discovery raised while a Snapshot with agents was held.
C19_Witness ==
    /\ trace.op = "reloaded"
    /\ trace.raised # ""
    /\ trace.prev.agents # <<>>
    /\ held.view.agents = <<>>
    /\ held.view.config # None

\* C20: a request or chat message is handled only between discoveries, and
\* it is answered from the Snapshot the latest completed discovery (startup
\* or reload) produced, as it was when that discovery completed.
C20_RequestsSeeLatest ==
    [][ /\ trace'.op = "request" =>
              /\ dp.pc = "idle" /\ server.mode = "single"
              /\ trace'.response = held.view
              /\ held' = held
        /\ (trace'.op \in {"started", "reloaded"} /\ dp.pc = "done") =>
              held'.view = to_dict(dp.snap, heap)
        /\ trace'.op \notin {"started", "reloaded"} => held'.view = held.view
      ]_vars

\* A chat message answered after a reload from a Snapshot that differs from
\* the one built at startup.
C20_Witness ==
    /\ trace.op = "request"
    /\ trace.kind = "chat"
    /\ server.reloaded
    /\ trace.response # server.first[1]
    /\ trace.response.agents # <<>>

DiscoveriesDoNotOverlap ==
    [][ /\ trace'.op \in {"batch", "reload_call", "create_app"} =>
              (dp.pc = "idle" /\ server.mode \in {"none", "single"})
        /\ (dp.pc # "idle" /\ dp'.pc # "idle") => dp'.project = dp.project
      ]_vars

(***************************************************************************)
(* The watcher on its own: the Dev Server has started on a project and     *)
(* awatch yields batches of changed paths of any kind.                     *)
(***************************************************************************)
WatchPaths ==
    {PMain, PVenv, PHidden, ConfigPath, EnvPath,
     <<"notes.txt">>, <<"cfg.yml">>, <<".venv", "x.py">>, <<"env", "c.yaml">>,
     <<"node_modules", "m.py">>, <<"src", "__pycache__", "a.py">>}

WatchTree ==
    MkTree(None, None, Some(<<ToolStmt("t", "Greet someone by name.")>>), None, FALSE,
           Some(<<Greeter>>))

InitWatcher ==
    /\ InitCommon
    /\ tree = [p \in {"p"} |-> WatchTree]
    /\ environ = << >>

\* awatch yields the next batch of changes.
SvAwatch ==
    /\ server.mode = "single"
    /\ server.watcher = "watching"
    /\ server.pending = {}
    /\ \E changes \in SUBSET WatchPaths \ {{}} :
          server' = [server EXCEPT !.pending = changes]
    /\ trace' = [op |-> "awatch"]
    /\ UNCHANGED <<chat, daemon, tree, registry, heap, sys_modules, environ, project_envs, ctx, dp,
                   ws, held>>

NextWatcher ==
    SvCreateApp \/ DpImportNext \/ DpImportEntry \/ SvStarted \/ SvAwatch \/ SvWatcherBatch

SpecWatcher == InitWatcher /\ [][NextWatcher]_vars

(***************************************************************************)
(* Claims about the watcher (SpecWatcher).                                 *)
(***************************************************************************)
\* The paths of a batch that the directory filter of the watcher lets through.
NonFiltered(changes) ==
    {path \in changes :
        ~\E i \in 1..Len(path) :
            \/ StartsWith(path[i], ".")
            \/ path[i] \in {"__pycache__", "node_modules", ".venv"}}

SourceExt == {".py"}

ConfigExt == {".yaml", ".yml"}

UnderSkippedDir(path) ==
    \E i \in 1..Len(path) - 1 : IsSkippedPart(path[i]) \/ path[i] = ".venv"

C23_SkippedDirsIgnored ==
    [][ trace'.op = "batch" =>
           /\ (\A path \in server.pending : UnderSkippedDir(path)) => ~trace'.called
           /\ (\E path \in server.pending :
                  /\ ~UnderSkippedDir(path)
                  /\ ~StartsWith(PathName(path), ".")
                  /\ Suffix(PathName(path)) \in SourceExt \cup ConfigExt) => trace'.called
      ]_vars

(***************************************************************************)
(* The reload push: the Dev Server has started on a project, clients       *)
(* subscribe to the reload socket and leave, and re-discoveries push the   *)
(* new Snapshot to the subscribers.                                        *)
(***************************************************************************)
NextPush ==
    SvCreateApp \/ DpImportNext \/ DpImportEntry \/ SvStarted \/ SvOnFileChange \/ SvReloaded
    \/ SvPushStep \/ SvSubscribe \/ SvClientClose \/ SvHandlerDisconnect

SpecPush == InitWatcher /\ [][NextPush]_vars

\* C21: when the push that follows a re-discovery ends, nothing was raised,
\* no client was sent the Snapshot twice, every client that was subscribed
\* when the push began and still is has been sent it, the sockets whose send
\* failed are not in the list and those whose send succeeded were not removed
\* by the push, whatever subscribed or disconnected meanwhile.
C21_PushToSubscribers ==
    [][ trace'.op = "pushed" =>
           /\ trace'.raised = ""
           /\ \A c \in Sockets :
                 Cardinality({k \in 1..Len(trace'.sent) : trace'.sent[k].client = c}) <= 1
           /\ \A c \in trace'.subs \cap Range(trace'.before) :
                 \E k \in 1..Len(trace'.sent) : trace'.sent[k].client = c
           /\ \A k \in 1..Len(trace'.sent) :
                 IF trace'.sent[k].ok
                 THEN trace'.sent[k].client \in Range(trace'.before) =>
                         trace'.sent[k].client \in Range(server'.clients)
                 ELSE trace'.sent[k].client \notin Range(server'.clients)
      ]_vars

\* C35: a push never ends with an exception, whichever reload clients
\* disconnected and had their handler run while it was sending.
C35_PushNeverRaises ==
    [][trace'.op = "pushed" => trace'.raised = ""]_vars


(***************************************************************************)
(* Chat (server/chat.py): handle_websocket_chat serves one WebSocket       *)
(* connection message by message, handle_streaming_chat serves one HTTP    *)
(* request with the state dict of its conversation.  The engine            *)
(* (Runner.run_streamed) is the environment: it yields stream events and   *)
(* then completes or raises.                                               *)
(***************************************************************************)
_HOSTED_TOOL_NAMES ==
    <<<<"web_search_call", "web_search">>, <<"file_search_call", "file_search">>,
      <<"code_interpreter_call", "code_interpreter">>,
      <<"image_generation_call", "image_generation">>>>

\* A stream event.  event is "text", "thinking", "tool_call" (a ToolCallItem)
\* or "tool_output" (a ToolCallOutputItem); the other fields are those of its
\* raw item that the handlers read.
StreamEvent(event, type, id, arguments, query, status, sources, delta) ==
    [event |-> event, type |-> type, id |-> id, name |-> "t", arguments |-> arguments,
     query |-> query, status |-> status, sources |-> sources, delta |-> delta]

\* Python truthiness of an optional string.
Truthy(v) == v # None /\ v[1] # ""

\* Mutant of _extract_hosted_args: a web search without a query still yields
\* arguments.
_extract_hosted_args_always(raw_item, raw_type) ==
    IF raw_type = "web_search_call" THEN "{query: " \o raw_item.query \o "}" ELSE ""

\* _extract_hosted_args: the JSON of the query of a web search, "" when there
\* is none.  (File searches and code interpreter calls have the same shape,
\* image generations never have arguments.)
_extract_hosted_args(raw_item, raw_type) ==
    IF raw_type \in {"web_search_call", "file_search_call", "code_interpreter_call"}
       /\ raw_item.query # ""
    THEN "{query: " \o raw_item.query \o "}"
    ELSE ""

\* _extract_hosted_output: the JSON of the sources of a web search, "" when
\* there are none.
_extract_hosted_output(raw_item, raw_type) ==
    IF raw_type \in {"web_search_call", "file_search_call", "code_interpreter_call"}
       /\ raw_item.sources # ""
    THEN "[" \o raw_item.sources \o "]"
    ELSE ""

\* _extract_tool_info: (name, arguments, item_id, hosted_status) of the raw
\* item of a ToolCallItem; hosted_status is None for a function tool.
_extract_tool_info(raw_item) ==
    IF raw_item.type = "function_call"
    THEN [name |-> raw_item.name, args |-> raw_item.arguments, item_id |-> raw_item.id,
          hosted_status |-> None]
    ELSE IF DictHas(_HOSTED_TOOL_NAMES, raw_item.type)
    THEN [name |-> DictGet(_HOSTED_TOOL_NAMES, raw_item.type),
          args |-> _extract_hosted_args(raw_item, raw_item.type),
          item_id |-> raw_item.id, hosted_status |-> Some(raw_item.status)]
    ELSE [name |-> raw_item.name, args |-> raw_item.arguments, item_id |-> raw_item.id,
          hosted_status |-> None]

\* An event sent to the client; src is the position in the stream of the item
\* that caused it (0 for the terminal event).
ChatEvent(type, data, src) == [type |-> type, data |-> data, src |-> src, response_id |-> None]

\* handle_websocket_chat, lines 288-361 (handle_streaming_chat, 463-535): what
\* one stream event sends, and what it does to seen_hosted_tools.
on_stream_event(seen_hosted_tools, event, k) ==
    LET info == _extract_tool_info(event)
        has_id == Truthy(info.item_id)
        emitted == IF has_id /\ info.item_id[1] \in DOMAIN seen_hosted_tools
                   THEN Some(seen_hosted_tools[info.item_id[1]]) ELSE None
        is_done == info.hosted_status[1] \in {"completed", "failed"}
        mark(v) == IF has_id
                   THEN [x \in DOMAIN seen_hosted_tools \cup {info.item_id[1]} |->
                           IF x = info.item_id[1] THEN v ELSE seen_hosted_tools[x]]
                   ELSE seen_hosted_tools
        tool_call == ChatEvent("tool_call", info.name \o info.args, k)
        tool_result == ChatEvent("tool_result", _extract_hosted_output(event, event.type), k)
    IN IF event.event \in {"text", "thinking"}
       THEN [seen |-> seen_hosted_tools,
             out |-> IF event.delta # ""
                     THEN <<ChatEvent(IF event.event = "text" THEN "token" ELSE "thinking",
                                      event.delta, k)>>
                     ELSE <<>>]
       ELSE IF event.event = "tool_output"
       THEN [seen |-> seen_hosted_tools, out |-> <<ChatEvent("tool_result", event.delta, k)>>]
       ELSE IF event.event # "tool_call"
       THEN [seen |-> seen_hosted_tools, out |-> <<>>]
       ELSE IF info.hosted_status = None
       THEN [seen |-> seen_hosted_tools, out |-> <<tool_call>>]
       ELSE IF emitted = Some(TRUE)
       THEN [seen |-> seen_hosted_tools, out |-> IF is_done THEN <<tool_result>> ELSE <<>>]
       ELSE IF info.args # ""
       THEN [seen |-> mark(TRUE),
             out |-> IF is_done THEN <<tool_call, tool_result>> ELSE <<tool_call>>]
       ELSE [seen |-> mark(FALSE), out |-> <<>>]

\* The loop over result.stream_events(): the events sent for the stream
\* events from position k on.
RECURSIVE stream_events(_, _, _)
stream_events(seen_hosted_tools, events, k) ==
    IF k > Len(events) THEN <<>>
    ELSE LET r == on_stream_event(seen_hosted_tools, events[k], k)
         IN r.out \o stream_events(r.seen, events, k + 1)

\* Mutant of is_litellm_model: no model is a LiteLLM model.
is_litellm_model_never(model_str) == FALSE

\* is_litellm_model, lines 129-133.
is_litellm_model(model_str) ==
    model_str # "" /\ Contains(model_str, "/") /\ ~StartsWith(model_str, "openai/")

\* The engine's result: the response id of a run of the agent, and the input
\* list for the next run (the input of this run and the agent's reply).
UserItem(content) == [role |-> "user", content |-> content]

last_response_id(agent) == "resp-" \o agent

to_input_list(run_input, agent) ==
    Append(run_input, [role |-> "assistant", content |-> "reply of " \o agent])

\* Mutant of select_agent: the first agent, whatever the message names.
select_agent_first(snapshot, agent_name) == snapshot.agents[1][1]

\* Lines 235-239 (419-423): the agent named in the message when it is a key
\* of snapshot.agents, else the first agent.
select_agent(snapshot, agent_name) ==
    IF Truthy(agent_name) /\ DictHas(snapshot.agents, agent_name[1])
    THEN agent_name[1]
    ELSE snapshot.agents[1][1]

\* Mutant of reset_on_switch: the continuity state survives a switch.
reset_on_switch_keep(current_agent_name, selected_name, value) == value

\* Lines 242-244 (426-428): a continuity value after the agent-switch check.
reset_on_switch(current_agent_name, selected_name, value) ==
    IF current_agent_name # None /\ selected_name # current_agent_name[1]
    THEN None
    ELSE value

\* Mutant of end_of_turn: an exception of the run leaves the handler.
end_of_turn_uncaught(raised, response_id) ==
    IF raised THEN [events |-> <<>>, closed |-> TRUE]
    ELSE [events |-> <<[ChatEvent("done", "final", 0) EXCEPT !.response_id = response_id]>>,
          closed |-> FALSE]

\* Lines 369-384 (539-558): how a turn ends.  The done event follows a run
\* that completed; an exception of the run is caught in the turn and sent as
\* an error event, and the handler goes on.
end_of_turn(raised, response_id) ==
    IF raised THEN [events |-> <<ChatEvent("error", "Exception", 0)>>, closed |-> FALSE]
    ELSE [events |-> <<[ChatEvent("done", "final", 0) EXCEPT !.response_id = response_id]>>,
          closed |-> FALSE]

\* Lines 235-384 (419-558), the part the two handlers have in common: the
\* turn for a message on a snapshot with agents.  st holds the values of
\* previous_response_id, conversation_history and current_agent_name at the
\* agent selection; fails is the number of stream events after which the run
\* raises, -1 for a run that completes.  The result holds the three values at
\* the end of the turn, the invocation of the engine and the events sent.
run_turn(st, snapshot, agent_name, content, stream, fails) ==
    LET selected_name == select_agent(snapshot, agent_name)
        previous_response_id ==
            reset_on_switch(st.current_agent_name, selected_name, st.previous_response_id)
        conversation_history ==
            reset_on_switch(st.current_agent_name, selected_name, st.conversation_history)
        use_litellm == is_litellm_model(DictGet(snapshot.agents, selected_name).model)
        run_input == IF use_litellm /\ conversation_history # None
                     THEN Append(conversation_history[1], UserItem(content))
                     ELSE <<UserItem(content)>>
        raised == fails >= 0
        yielded == IF raised THEN SubSeq(stream, 1, fails) ELSE stream
        new_id == IF raised \/ use_litellm THEN previous_response_id
                  ELSE Some(last_response_id(selected_name))
        new_history == IF raised \/ ~use_litellm THEN conversation_history
                       ELSE Some(to_input_list(run_input, selected_name))
        end == end_of_turn(raised, new_id)
    IN [previous_response_id |-> new_id,
        conversation_history |-> new_history,
        current_agent_name |-> Some(selected_name),
        use_litellm |-> use_litellm,
        raised |-> raised,
        run |-> Some([agent |-> selected_name, input |-> run_input,
                      previous_response_id |->
                          IF use_litellm THEN None ELSE previous_response_id]),
        events |-> stream_events(<< >>, yielded, 1) \o end.events,
        closed |-> end.closed]

\* The turn for a message on a snapshot without agents (lines 228-232,
\* 410-415): an error event, no run.
NoAgentsTurn(st) ==
    [previous_response_id |-> st.previous_response_id,
     conversation_history |-> st.conversation_history,
     current_agent_name |-> st.current_agent_name,
     use_litellm |-> FALSE, raised |-> FALSE, run |-> None,
     events |-> <<ChatEvent("error", "No agents loaded", 0)>>, closed |-> FALSE]

Locals(c) ==
    [previous_response_id |-> c.previous_response_id,
     conversation_history |-> c.conversation_history,
     current_agent_name |-> c.current_agent_name]

\* Mutant of handle_websocket_chat: a clear message keeps the continuity
\* state.
handle_websocket_chat_noclear(c, msg, snapshot, fails) ==
    LET st == [Locals(c) EXCEPT !.previous_response_id =
                   IF Truthy(msg.previous_response_id) THEN msg.previous_response_id ELSE @]
    IN IF msg.type = "clear" THEN [NoAgentsTurn(Locals(c)) EXCEPT !.events = <<>>]
       ELSE IF snapshot.agents = <<>> THEN NoAgentsTurn(st)
       ELSE run_turn(st, snapshot, msg.agent_name, msg.content, c.stream, fails)

\* handle_websocket_chat, lines 210-384: one turn of the loop, for one
\* inbound message.
handle_websocket_chat(c, msg, snapshot, fails) ==
    LET st == [Locals(c) EXCEPT !.previous_response_id =
                   IF Truthy(msg.previous_response_id) THEN msg.previous_response_id ELSE @]
        cleared == [Locals(c) EXCEPT !.previous_response_id = None,
                                     !.conversation_history = None]
    IN IF msg.type = "clear" THEN [NoAgentsTurn(cleared) EXCEPT !.events = <<>>]
       ELSE IF snapshot.agents = <<>> THEN NoAgentsTurn(st)
       ELSE run_turn(st, snapshot, msg.agent_name, msg.content, c.stream, fails)

\* handle_streaming_chat, lines 406-558: one request.  The locals start from
\* the state dict; the dict gets current_agent_name at the selection and the
\* continuity value of the model kind (the other one popped) only at the end
\* of a run that completed.
handle_streaming_chat(c, msg, snapshot, fails) ==
    LET r == run_turn(Locals(c), snapshot, msg.agent_name, msg.content, c.stream, fails)
    IN IF snapshot.agents = <<>> THEN NoAgentsTurn(Locals(c))
       ELSE IF r.raised
       THEN [r EXCEPT !.previous_response_id = c.previous_response_id,
                      !.conversation_history = c.conversation_history]
       ELSE IF r.use_litellm
       THEN [r EXCEPT !.previous_response_id = None]
       ELSE [r EXCEPT !.conversation_history = None]


\* The bounds of a session: the messages it handles and the stream events of
\* a run.
MaxTurns == 3

MaxItems == 3

ChatNames == {None, Some("Searcher"), Some("Claude")}

ChatMsg(type, agent_name, previous_response_id) ==
    [type |-> type, message |-> "hi", content |-> "hi", agent_name |-> agent_name,
     previous_response_id |-> previous_response_id]

\* The websocket messages: clear, a message for each name, and a message with
\* a response id of the client's for the first agent and for Claude.
WsMessages ==
    {ChatMsg("clear", None, None)}
    \cup {ChatMsg("message", n, None) : n \in ChatNames}
    \cup {ChatMsg("message", n, Some("resp-x")) : n \in {None, Some("Claude")}}

SseMessages == {ChatMsg("message", n, None) : n \in ChatNames}

\* The project of the chat sessions: a tool file and an entry file that
\* defines two native agents and then a LiteLLM agent, or the LiteLLM agent
\* only, or no entry file at all.
ChatTrees ==
    {MkTree(None, None, Some(<<ToolStmt("t", "Greet someone by name.")>>), None, FALSE, m) :
        m \in {Some(<<Greeter, Searcher, Claude>>), Some(<<Claude>>), None}}

\* The streams of the runs of a session where the claims are about the
\* continuity state.
ChatStreams == {<<StreamEvent("text", "", None, "", "", "", "", "Hello")>>}

InitChatOn(trees, streams) ==
    /\ registry = EmptyRegistry
    /\ heap = << >>
    /\ sys_modules = << >>
    /\ project_envs = << >>
    /\ ctx = <<>>
    /\ dp = DpIdle
    /\ ws = WsIdle
    /\ held = NoResult
    /\ daemon = DaemonIdle
    /\ server = ServerIdle
    /\ \E s \in streams : chat = [ChatIdle EXCEPT !.stream = s]
    /\ trace = [op |-> "init"]
    /\ \E t \in trees : tree = [p \in {"p"} |-> t]
    /\ environ = << >>

InitChat == InitChatOn(ChatTrees, ChatStreams)

\* The user edits the entry file while the Dev Server runs.
ChatEdit ==
    /\ server.mode = "single"
    /\ dp.pc = "idle"
    /\ \E t \in ChatTrees :
          /\ t # tree["p"]
          /\ tree' = [tree EXCEPT !["p"] = t]
    /\ trace' = [op |-> "edit"]
    /\ UNCHANGED <<chat, daemon, server, registry, heap, sys_modules, environ, project_envs,
                   ctx, dp, ws, held>>

\* A client opens a chat: websocket.accept() and the three locals of
\* handle_websocket_chat (lines 205-208), or the first request of a
\* conversation with an empty state dict (lines 403-404).
ChatBegin ==
    /\ server.mode = "single"
    /\ chat.kind = "none"
    /\ \E kind \in {"ws", "sse"} : chat' = [chat EXCEPT !.kind = kind]
    /\ trace' = [op |-> "chat_begin"]
    /\ UNCHANGED <<daemon, server, tree, registry, heap, sys_modules, environ, project_envs,
                   ctx, dp, ws, held>>

ChatStep(handler, msg, snapshot, r) ==
    /\ chat' = [chat EXCEPT !.previous_response_id = r.previous_response_id,
                            !.conversation_history = r.conversation_history,
                            !.current_agent_name = r.current_agent_name,
                            !.kind = IF r.closed THEN "closed" ELSE @,
                            !.turns = @ + 1,
                            !.last_agent = IF r.run # None THEN Some(r.run[1].agent) ELSE @,
                            !.after_clear = (msg.type = "clear")]
    /\ trace' = [op |-> "turn", handler |-> handler, msg |-> msg, snapshot |-> snapshot,
                 run |-> r.run, raised |-> r.raised, events |-> r.events, before |-> chat]
    /\ UNCHANGED <<daemon, server, tree, registry, heap, sys_modules, environ, project_envs,
                   ctx, dp, ws, held>>

\* handle_websocket_chat, one turn of the loop: the message is received, the
\* Snapshot is fetched with get_snapshot() and the turn runs to its end.
ChatMessage ==
    /\ server.mode = "single"
    /\ dp.pc = "idle"
    /\ chat.kind = "ws"
    /\ chat.turns < MaxTurns
    /\ \E msg \in WsMessages, fails \in -1..Len(chat.stream) :
          LET snapshot == get_snapshot(held, heap, server)
          IN ChatStep("ws", msg, snapshot,
                      handle_websocket_chat(chat, msg, snapshot, fails))

\* handle_streaming_chat: one request of the conversation, with the state
\* dict the previous request left and the Snapshot of the server.
ChatRequest ==
    /\ server.mode = "single"
    /\ dp.pc = "idle"
    /\ chat.kind = "sse"
    /\ chat.turns < MaxTurns
    /\ \E msg \in SseMessages, fails \in -1..Len(chat.stream) :
          LET snapshot == get_snapshot(held, heap, server)
          IN ChatStep("sse", msg, snapshot,
                      handle_streaming_chat(chat, msg, snapshot, fails))

NextChat ==
    SvCreateApp \/ DpImportNext \/ DpImportEntry \/ SvStarted \/ ChatEdit \/ SvOnFileChange
    \/ SvReloaded \/ ChatBegin \/ ChatMessage \/ ChatRequest

SpecChat == InitChat /\ [][NextChat]_vars


(***************************************************************************)
(* Claims about the chat sessions (SpecChat).                              *)
(***************************************************************************)

\* C24: in either handler, a turn whose agent differs from the agent of the
\* previous run of the session invokes the engine with no previous response
\* id and with the new user content as its whole input.
C24_SwitchStartsFresh ==
    [][(/\ trace'.op = "turn"
        /\ chat'.turns = chat.turns + 1
        /\ trace'.run # None
        /\ chat.last_agent # None
        /\ trace'.run[1].agent # chat.last_agent[1])
       => /\ trace'.run[1].previous_response_id = None
          /\ trace'.run[1].input = <<UserItem(trace'.msg.content)>>
      ]_vars

\* A request of a conversation that ran the native agent Greeter last and
\* holds its response id, addressed to the native agent Searcher.
C24_Witness ==
    /\ trace.op = "turn"
    /\ trace.handler = "sse"
    /\ trace.before.last_agent = Some("Greeter")
    /\ trace.before.previous_response_id = Some("resp-Greeter")
    /\ trace.run # None
    /\ trace.run[1].agent = "Searcher"


\* C25: every chat message is answered by the agent it names when that name
\* is a key of the Snapshot the server holds when the message is handled,
\* else by the first agent of that Snapshot; when the Snapshot has no agents
\* the only event is an error and no run is started.
C25_AgentSelection ==
    [][(/\ trace'.op = "turn"
        /\ chat'.turns = chat.turns + 1
        /\ trace'.msg.type # "clear")
       => LET agents == held.view.agents
              named == trace'.msg.agent_name
          IN IF agents = <<>>
             THEN /\ trace'.run = None
                  /\ Len(trace'.events) = 1
                  /\ trace'.events[1].type = "error"
             ELSE /\ trace'.run # None
                  /\ trace'.run[1].agent =
                        IF named # None /\ named[1] \in {agents[i][1] : i \in 1..Len(agents)}
                        THEN named[1]
                        ELSE agents[1][1]
      ]_vars

\* A message that names Searcher, handled after a hot reload that left Claude
\* as the only agent, is answered by Claude.
C25_Witness ==
    /\ trace.op = "turn"
    /\ server.reloaded
    /\ held.view # server.first[1]
    /\ trace.msg.agent_name = Some("Searcher")
    /\ trace.run # None
    /\ trace.run[1].agent = "Claude"


\* A native provider model: no provider prefix, or the prefix "openai/".
NativeModel(model_str) == ~Contains(model_str, "/") \/ StartsWith(model_str, "openai/")

\* C26: the engine gets a previous response id only for an agent with a
\* native model, and input that holds accumulated history only for an agent
\* with a pass-through model; it never gets both.
C26_OneContinuityMechanism ==
    [][(/\ trace'.op = "turn"
        /\ chat'.turns = chat.turns + 1
        /\ trace'.run # None)
       => LET run == trace'.run[1]
              model == DictGet(held.view.agents, run.agent).model
              has_id == run.previous_response_id # None
              has_history == Len(run.input) > 1
          IN /\ has_id => NativeModel(model)
             /\ has_history => ~NativeModel(model)
             /\ ~(has_id /\ has_history)
      ]_vars

\* A websocket message with an explicit response id for the pass-through
\* agent Claude, in a session that holds history: the run gets the history
\* and no id.
C26_Witness ==
    /\ trace.op = "turn"
    /\ trace.msg.previous_response_id = Some("resp-x")
    /\ trace.before.conversation_history # None
    /\ trace.run # None
    /\ trace.run[1].agent = "Claude"
    /\ Len(trace.run[1].input) = 3
    /\ trace.run[1].previous_response_id = None


\* C27: a turn that starts a run sends exactly one terminal event, as its
\* last event: done when the run completed, error when it raised; and the
\* session is open after the turn, ready for the next message.
C27_OneTerminalEvent ==
    [][(/\ trace'.op = "turn"
        /\ chat'.turns = chat.turns + 1
        /\ trace'.run # None)
       => LET events == trace'.events
              n == Len(events)
          IN /\ n >= 1
             /\ events[n].type = (IF trace'.raised THEN "error" ELSE "done")
             /\ \A i \in 1..(n - 1) : events[i].type \notin {"done", "error"}
             /\ chat'.kind = chat.kind
             /\ chat'.kind \in {"ws", "sse"}
      ]_vars

\* The second message of a websocket session whose first run raised: its run
\* completes and the turn ends with done.
C27_Witness ==
    /\ trace.op = "turn"
    /\ trace.handler = "ws"
    /\ trace.before.turns = 1
    /\ trace.before.last_agent # None
    /\ trace.before.previous_response_id = None
    /\ trace.before.conversation_history = None
    /\ trace.run # None
    /\ ~trace.raised
    /\ trace.events[Len(trace.events)].type = "done"


\* C30: a clear message starts no run and sends no event; the run of the
\* message that follows a clear gets the new user content as its whole input
\* and no response id but the one that message carries.
C30_ClearDiscardsContinuity ==
    [][(/\ trace'.op = "turn"
        /\ chat'.turns = chat.turns + 1)
       => /\ trace'.msg.type = "clear" => (trace'.run = None /\ trace'.events = <<>>)
          /\ (chat.after_clear /\ trace'.run # None)
             => /\ trace'.run[1].input = <<UserItem(trace'.msg.content)>>
                /\ trace'.run[1].previous_response_id
                      \in {None, trace'.msg.previous_response_id}
      ]_vars

\* The message after a clear, without a response id, for the native agent
\* that ran last before the clear: the run gets no response id.
C30_Witness ==
    /\ trace.op = "turn"
    /\ trace.handler = "ws"
    /\ trace.before.after_clear
    /\ trace.before.last_agent = Some("Greeter")
    /\ trace.msg.previous_response_id = None
    /\ trace.run # None
    /\ trace.run[1].agent = "Greeter"
    /\ trace.run[1].previous_response_id = None


(***************************************************************************)
(* The stream loop of one run, event by event, for every stream of up to   *)
(* MaxItems tool items: web searches with and without a query, in          *)
(* progress, completed or failed, with the item ids i1 and i2 or without   *)
(* an id, and a function tool call.                                        *)
(***************************************************************************)
HostedItem(id, query, status) ==
    StreamEvent("tool_call", "web_search_call", id, "", query, status,
                IF status = "completed" THEN "url" ELSE "", "")

StreamItems ==
    {HostedItem(Some(id), query, status) :
        id \in {"i1", "i2"}, query \in {"", "q"}, status \in {"in_progress", "completed"}}
    \cup {HostedItem(Some("i1"), "q", "failed"), HostedItem(None, "q", "completed"),
          StreamEvent("tool_call", "function_call", Some("f1"), "{}", "", "", "", "")}

HostedStreams == UNION {[1..n -> StreamItems] : n \in 0..MaxItems}

InitStream == InitChatOn({WatchTree}, HostedStreams)

\* Lines 274-282 (453-461): Runner.run_streamed returned its result and
\* seen_hosted_tools is empty.
StreamBegin ==
    /\ chat.kind = "none"
    /\ \E handler \in {"ws", "sse"} :
          chat' = [chat EXCEPT !.kind = handler, !.pos = 1]
    /\ trace' = [op |-> "run_streamed"]
    /\ UNCHANGED <<daemon, server, tree, registry, heap, sys_modules, environ, project_envs,
                   ctx, dp, ws, held>>

\* One iteration of the loop over result.stream_events().
StreamNext ==
    /\ chat.kind \in {"ws", "sse"}
    /\ chat.pos \in 1..Len(chat.stream)
    /\ LET r == on_stream_event(chat.seen_hosted_tools, chat.stream[chat.pos], chat.pos)
       IN chat' = [chat EXCEPT !.pos = @ + 1, !.seen_hosted_tools = r.seen,
                               !.sent = @ \o r.out]
    /\ trace' = [op |-> "stream_event"]
    /\ UNCHANGED <<daemon, server, tree, registry, heap, sys_modules, environ, project_envs,
                   ctx, dp, ws, held>>

\* The stream ends, or the run raises at the next event: the turn ends.
StreamEnd ==
    /\ chat.kind \in {"ws", "sse"}
    /\ chat.pos >= 1
    /\ \E raised \in {chat.pos <= Len(chat.stream), TRUE} :
          chat' = [chat EXCEPT !.pos = 0, !.kind = "closed",
                               !.sent = @ \o end_of_turn(raised, None).events]
    /\ trace' = [op |-> "end_of_turn"]
    /\ UNCHANGED <<daemon, server, tree, registry, heap, sys_modules, environ, project_envs,
                   ctx, dp, ws, held>>

NextStream == StreamBegin \/ StreamNext \/ StreamEnd

SpecStream == InitStream /\ [][NextStream]_vars

(***************************************************************************)
(* Claims about the stream loop (SpecStream).                              *)
(***************************************************************************)
HostedSources(type) ==
    {j \in 1..Len(chat.sent) :
        /\ chat.sent[j].type = type
        /\ chat.sent[j].src >= 1
        /\ chat.stream[chat.sent[j].src].type = "web_search_call"}

ItemIds == {"i1", "i2"}

\* C28: of the events sent for the hosted-tool items of a run, at most one
\* tool_result belongs to each item id, and every tool_result comes from an
\* item whose status is completed or failed.
C28_ResultOncePerId ==
    /\ \A id \in ItemIds :
          Cardinality({j \in HostedSources("tool_result") :
                          chat.stream[chat.sent[j].src].id = Some(id)}) <= 1
    /\ \A j \in HostedSources("tool_result") :
          chat.stream[chat.sent[j].src].status \in {"completed", "failed"}

\* The half of C28 that holds: a tool_result only comes from an item whose
\* status is completed or failed.
ResultOnlyWhenTerminal ==
    \A j \in HostedSources("tool_result") :
        chat.stream[chat.sent[j].src].status \in {"completed", "failed"}

\* C29: of the events sent for the hosted-tool items of a run, at most one
\* tool_call belongs to each item id, every tool_call comes from an item with
\* a query, and an item without a query sends nothing unless an earlier item
\* with the same id had one.
C29_CallOncePerId ==
    /\ \A id \in ItemIds :
          Cardinality({j \in HostedSources("tool_call") :
                          chat.stream[chat.sent[j].src].id = Some(id)}) <= 1
    /\ \A j \in HostedSources("tool_call") : chat.stream[chat.sent[j].src].query # ""
    /\ \A j \in HostedSources("tool_call") \cup HostedSources("tool_result") :
          LET k == chat.sent[j].src
          IN chat.stream[k].query = ""
             => \E e \in 1..(k - 1) : /\ chat.stream[e].id = chat.stream[k].id
                                      /\ chat.stream[e].query # ""

\* The item i1 came without a query, then with one, then again with one: one
\* tool_call was sent for it.
C29_Witness ==
    /\ chat.pos = 4
    /\ chat.stream[1].id = Some("i1") /\ chat.stream[1].query = ""
    /\ chat.stream[2].id = Some("i1") /\ chat.stream[2].query = "q"
    /\ chat.stream[3].id = Some("i1") /\ chat.stream[3].query = "q"
    /\ Cardinality(HostedSources("tool_call")) = 1


\* C33: after every turn whose run completed, at most one of the stored
\* response id and the stored message history is set.
C33_OneStoredMechanism ==
    (trace.op = "turn" /\ trace.run # None /\ ~trace.raised)
    => ~(chat.previous_response_id # None /\ chat.conversation_history # None)

\* C34: in handle_streaming_chat no run gets a response id or a history item
\* that a run of another agent produced.
C34_NoForeignContinuity ==
    [][(/\ trace'.op = "turn"
        /\ chat'.turns = chat.turns + 1
        /\ trace'.handler = "sse"
        /\ trace'.run # None)
       => LET run == trace'.run[1]
              others == {"Greeter", "Searcher", "Claude"} \ {run.agent}
          IN /\ \A a \in others : run.previous_response_id # Some(last_response_id(a))
             /\ \A a \in others : \A i \in 1..Len(run.input) :
                   run.input[i] # to_input_list(<<>>, a)[1]
      ]_vars


(***************************************************************************)
(* The eviction step on its own: a process has imported modules from files *)
(* inside and outside project "p", and discover_project("p") evicts.       *)
(***************************************************************************)
ModuleFiles ==
    {[project |-> "p", path |-> <<"src", "main.py">>],
     [project |-> "p", path |-> <<"venv", "lib", "x.py">>],
     [project |-> "p", path |-> <<".hidden", "h.py">>],
     [project |-> "p", path |-> <<"src", "venv", "x.py">>],
     [project |-> "p", path |-> <<"src", ".cache", "y.py">>],
     [project |-> "p2", path |-> <<"src", "main.py">>],
     [project |-> "q", path |-> <<"src", "main.py">>]}

\* The import system loads a module from a file: sys.modules[name] = module.
EvImport ==
    /\ \E f \in ModuleFiles :
          LET name == f.project \o "." \o Join(f.path, ".")
          IN /\ name \notin DOMAIN sys_modules
             /\ sys_modules' = [m \in DOMAIN sys_modules \cup {name} |->
                                  IF m = name THEN f ELSE sys_modules[m]]
    /\ trace' = [op |-> "import_module"]
    /\ UNCHANGED <<chat, daemon, server, tree, registry, heap, environ, project_envs, ctx, dp,
                   ws, held>>

\* discover_project("p"), line 58: _clean_project_modules(project_dir).
EvClean ==
    /\ sys_modules' = _clean_project_modules(sys_modules, "p")
    /\ trace' = [op |-> "clean", before |-> sys_modules]
    /\ UNCHANGED <<chat, daemon, server, tree, registry, heap, environ, project_envs, ctx, dp,
                   ws, held>>

NextEvict == EvImport \/ EvClean

SpecEvict == InitWatcher /\ [][NextEvict]_vars

\* C39: the eviction of discover_project("p") removes a module only if its
\* file lies in the tree of p and no directory on the way from p to the file
\* is hidden or a dependency or cache directory.
C39_EvictsOnlyProjectSources ==
    [][trace'.op = "clean" =>
          \A m \in DOMAIN sys_modules \ DOMAIN sys_modules' :
             LET f == sys_modules[m]
             IN /\ f.project = "p"
                /\ \A i \in 1..(Len(f.path) - 1) : ~IsSkippedPart(f.path[i])
      ]_vars

\* The half of C39 that holds: a module whose file is directly under a hidden
\* or dependency directory of p, or in a project whose name does not begin
\* with the name of p, is never removed.
EvictKeepsTopLevelSkipped ==
    [][trace'.op = "clean" =>
          \A m \in DOMAIN sys_modules \ DOMAIN sys_modules' :
             /\ ~IsSkippedPart(sys_modules[m].path[1])
             /\ sys_modules[m].project # "q"
      ]_vars


(***************************************************************************)
(* Daemon identities: on a machine without daemons, the workspace          *)
(* identity, a project whose directory is named "workspace" and a project  *)
(* named "a" are started, read and stopped.                                *)
(***************************************************************************)
NamedIdentities == {None, Some("workspace"), Some("a")}

InitIdentities == InitDaemon /\ daemon = DaemonIdle

IdStartDaemon == StartDaemonOn(NamedIdentities)

IdReadPidInfo == ReadPidInfoOn(NamedIdentities)

IdStopDaemon == StopDaemonOn(NamedIdentities)

NextIdentities ==
    IdStartDaemon \/ StartDaemonWait \/ WorkerBind \/ ProcExit \/ IdReadPidInfo
    \/ IdStopDaemon \/ StopDaemonWait

SpecIdentities == InitIdentities /\ [][NextIdentities]_vars

\* The identity whose start_daemon wrote a PID record: the workspace identity
\* records no project path.
RecordOwner(info) == IF info.cwd = "" THEN None ELSE Some(info.project)

\* C40: start_daemon, read_pid_info and stop_daemon of one identity leave the
\* PID records written for every other identity in place and unchanged, and
\* read_pid_info returns no record written for another identity.
C40_RecordsPerIdentity ==
    [][trace'.op \in {"start_call", "start_return", "start_raise", "read", "stop_kill",
                      "stop_return"}
       => /\ \A f \in DOMAIN daemon.files :
                (daemon.files[f] # <<>> /\ RecordOwner(daemon.files[f][1]) # trace'.project)
                => (f \in DOMAIN daemon'.files /\ daemon'.files[f] = daemon.files[f])
          /\ (trace'.op = "read" /\ trace'.info # None)
                => RecordOwner(trace'.info[1]) = trace'.project
      ]_vars

\* The half of C40 that holds: the operations of project "a" and those of
\* the other two identities never touch each other's records.
RecordsOfOtherNames ==
    [][trace'.op \in {"start_call", "start_return", "start_raise", "read", "stop_kill",
                      "stop_return"}
       => \A f \in DOMAIN daemon.files :
             (/\ daemon.files[f] # <<>>
              /\ (RecordOwner(daemon.files[f][1]) = Some("a")) # (trace'.project = Some("a")))
             => (f \in DOMAIN daemon'.files /\ daemon'.files[f] = daemon.files[f])
      ]_vars

(***************************************************************************)
(* production.py: the production server.  The keys are read from the       *)
(* environment once, when the app is created; /api/chat and /ws/chat check *)
(* the key of the request against them before they hand over to the chat   *)
(* handlers.                                                               *)
(***************************************************************************)
ProdKeyVars == {"KLISK_API_KEY", "KLISK_CHAT_KEY", "KLISK_WIDGET_KEY"}

\* The characters above U+007F among those the inputs are made of.
NonAscii == {"é"}

IsAscii(s) == \A i \in 1..Len(s) : SubSeq(s, i, i) \notin NonAscii

\* str.strip(): the whitespace at both ends is removed.
RECURSIVE str_strip(_)
str_strip(s) ==
    IF s = "" THEN s
    ELSE IF SubSeq(s, 1, 1) = " " THEN str_strip(SubSeq(s, 2, Len(s)))
    ELSE IF SubSeq(s, Len(s), Len(s)) = " " THEN str_strip(SubSeq(s, 1, Len(s) - 1))
    ELSE s

\* str.split(","): the pieces between the commas, cur being the piece read
\* so far.
RECURSIVE str_split(_, _)
str_split(s, cur) ==
    IF s = "" THEN <<cur>>
    ELSE IF SubSeq(s, 1, 1) = "," THEN <<cur>> \o str_split(SubSeq(s, 2, Len(s)), "")
    ELSE str_split(SubSeq(s, 2, Len(s)), cur \o SubSeq(s, 1, 1))

\* _get_valid_keys, lines 25-32: the set of keys, or None when it is empty.
_get_valid_keys(env) ==
    LET raw(var) == str_strip(IF var \in DOMAIN env THEN env[var] ELSE "")
        pieces(var) == IF raw(var) = "" THEN {}
                       ELSE {str_strip(k) : k \in Range(str_split(raw(var), ""))} \ {""}
        keys == UNION {pieces(var) : var \in ProdKeyVars}
    IN IF keys = {} THEN None ELSE Some(keys)

\* The orders in which a set can be iterated.
Orders(S) ==
    {f \in [1..Cardinality(S) -> S] : \A i, j \in 1..Cardinality(S) : i # j => f[i] # f[j]}

\* hmac.compare_digest on two str: TypeError unless both are ASCII.
compare_digest(a, b) ==
    IF IsAscii(a) /\ IsAscii(b) THEN [exc |-> "", value |-> a = b]
    ELSE [exc |-> "TypeError", value |-> FALSE]

\* _validate_api_key, lines 35-37: any() over the set in its iteration order;
\* it stops at the first True and at the first comparison that raises.
RECURSIVE _validate_api_key(_, _)
_validate_api_key(provided, valid_keys) ==
    IF valid_keys = <<>> THEN [exc |-> "", value |-> FALSE]
    ELSE LET r == compare_digest(provided, Head(valid_keys))
         IN IF r.exc # "" \/ r.value THEN r
            ELSE _validate_api_key(provided, Tail(valid_keys))

\* api_chat, lines 99-100: the key of the authorization header.
bearer_key(authorization) ==
    LET auth == IF authorization = None THEN "" ELSE authorization[1]
        prefix == "Bearer "
    IN IF Len(auth) >= Len(prefix) /\ SubSeq(auth, 1, Len(prefix)) = prefix
       THEN str_strip(SubSeq(auth, Len(prefix) + 1, Len(auth)))
       ELSE ""

\* `if api_keys:` (lines 98, 143): None and the empty set are false.
KeysRequired(api_keys) == api_keys # None /\ api_keys[1] # <<>>

\* ws_chat, line 144: the key of the query string.
query_key(key) == IF key = None THEN "" ELSE key[1]

\* The values of the three variables, the authorization headers and the key
\* parameters the server is run with.
ProdRawKeys == {" a , b", " , ", "é"}

ProdEnvirons ==
    UNION {[S -> ProdRawKeys] : S \in {{}, {"KLISK_API_KEY"}, {"KLISK_CHAT_KEY", "KLISK_WIDGET_KEY"}}}

AuthHeaders ==
    {None, Some("a"), Some("bearer a"), Some("Bearer "), Some("Bearer a"), Some("Bearer  b "),
     Some("Bearer c"), Some("Bearer é")}

QueryKeys == {None, Some(""), Some("a"), Some("b"), Some(" a"), Some("c"), Some("é")}

\* The project of the production server: an entry file with one agent, or no
\* entry file (the discovery fails).
ProdTrees ==
    {MkTree(None, None, Some(<<ToolStmt("t", "Greet someone by name.")>>), None, FALSE, m) :
        m \in {Some(<<Greeter>>), None}}

ProdMessages == {ChatMsg("clear", None, None), ChatMsg("message", None, None)}

InitProd ==
    /\ InitCommon
    /\ \E t \in ProdTrees : tree = [p \in {"p"} |-> t]
    /\ \E e \in ProdEnvirons : environ = e

\* create_production_app, lines 42-53: the .env of the project is cached and
\* the discovery begins.
ProdCreateApp ==
    /\ server.mode = "none"
    /\ DpBegin("p")
    /\ project_envs' = load_project_env(project_envs, "p", tree["p"])
    /\ server' = [server EXCEPT !.mode = "creating"]
    /\ heap' = Collect(heap, HeapRoots(registry', dp', ws, held))
    /\ trace' = [op |-> "create_production_app"]
    /\ UNCHANGED <<chat, daemon, tree, environ, ctx, ws, held>>

\* create_production_app, lines 52-66: the discovery returned or raised, the
\* entries are tagged with the project name and the keys are read.
ProdCreated ==
    /\ server.mode = "creating"
    /\ dp.pc \in {"done", "raised"}
    /\ LET snap == discovered_or_error(dp, held)
           a == TagEntries([heap |-> heap, origins |-> EmptyDict], snap.agents, "p")
           t == TagEntries([heap |-> a.heap, origins |-> EmptyDict], snap.tools, "p")
           api_keys == _get_valid_keys(environ)
       IN /\ held' = [status |-> "ok", project |-> dp.project, snap |-> snap,
                      view |-> to_dict(snap, t.heap), edited |-> FALSE]
          /\ \E order \in (IF api_keys = None THEN {<<>>} ELSE Orders(api_keys[1])) :
                server' = [server EXCEPT
                             !.mode = "production",
                             !.first = Some(to_dict(snap, t.heap)),
                             !.api_keys = IF api_keys = None THEN None ELSE Some(order)]
          /\ dp' = DpIdle
          /\ heap' = Collect(t.heap, HeapRoots(registry, dp', ws, held'))
    /\ trace' = [op |-> "created", raised |-> dp.exc]
    /\ UNCHANGED <<chat, daemon, tree, registry, sys_modules, environ, project_envs, ctx, ws>>

\* api_chat, lines 96-139: one POST /api/chat with a new state dict.  An
\* exception that leaves the handler is answered with status 500.
ProdApiChat ==
    /\ server.mode = "production"
    /\ \E authorization \in AuthHeaders, stream \in BOOLEAN, fails \in {-1, 0} :
          LET check == IF KeysRequired(server.api_keys)
                       THEN _validate_api_key(bearer_key(authorization), server.api_keys[1])
                       ELSE [exc |-> "", value |-> TRUE]
              c == [ChatIdle EXCEPT !.kind = "sse", !.stream = CHOOSE s \in ChatStreams : TRUE]
              r == handle_streaming_chat(c, ChatMsg("message", None, None), held.view, fails)
          IN trace' =
                IF check.exc # ""
                THEN [op |-> "api_chat", authorization |-> authorization, status |-> 500,
                      raised |-> check.exc, started |-> FALSE, stream |-> stream,
                      events |-> <<>>]
                ELSE IF ~check.value
                THEN [op |-> "api_chat", authorization |-> authorization, status |-> 401,
                      raised |-> "", started |-> FALSE, stream |-> stream,
                      events |-> <<>>]
                ELSE [op |-> "api_chat", authorization |-> authorization, status |-> 200,
                      raised |-> "", started |-> TRUE, stream |-> stream,
                      events |-> r.events]
    /\ UNCHANGED <<chat, daemon, server, tree, registry, heap, sys_modules, environ,
                   project_envs, ctx, dp, ws, held>>

\* ws_chat, lines 141-150: a client connects to /ws/chat.  The rejected
\* connection is accepted, told auth_error and closed; the admitted one is
\* accepted by handle_websocket_chat (chat.py 205-208); an exception leaves the
\* handler before the connection is accepted.
ProdWsChat ==
    /\ server.mode = "production"
    /\ chat.kind \in {"none", "closed"}
    /\ \E key \in QueryKeys :
          LET check == IF KeysRequired(server.api_keys)
                       THEN _validate_api_key(query_key(key), server.api_keys[1])
                       ELSE [exc |-> "", value |-> TRUE]
          IN IF check.exc # ""
             THEN /\ chat' = [ChatIdle EXCEPT !.kind = "closed"]
                  /\ trace' = [op |-> "ws_chat", key |-> key, accepted |-> FALSE,
                               raised |-> check.exc, started |-> FALSE, events |-> <<>>,
                               close_code |-> 0]
             ELSE IF ~check.value
             THEN /\ chat' = [ChatIdle EXCEPT !.kind = "closed"]
                  /\ trace' = [op |-> "ws_chat", key |-> key, accepted |-> TRUE,
                               raised |-> "", started |-> FALSE,
                               events |-> <<ChatEvent("auth_error", "Invalid API key", 0)>>,
                               close_code |-> 4001]
             ELSE /\ chat' = [ChatIdle EXCEPT !.kind = "ws",
                                              !.stream = CHOOSE s \in ChatStreams : TRUE]
                  /\ trace' = [op |-> "ws_chat", key |-> key, accepted |-> TRUE,
                               raised |-> "", started |-> TRUE, events |-> <<>>,
                               close_code |-> 0]
    /\ UNCHANGED <<daemon, server, tree, registry, heap, sys_modules, environ, project_envs,
                   ctx, dp, ws, held>>

\* handle_websocket_chat with `lambda: snapshot`: one message of an admitted
\* connection.
ProdWsMessage ==
    /\ server.mode = "production"
    /\ chat.kind = "ws"
    /\ chat.turns < MaxTurns
    /\ \E msg \in ProdMessages, fails \in {-1, 0} :
          ChatStep("ws", msg, held.view, handle_websocket_chat(chat, msg, held.view, fails))

NextProd ==
    ProdCreateApp \/ DpImportNext \/ DpImportEntry \/ ProdCreated \/ ProdApiChat
    \/ ProdWsChat \/ ProdWsMessage

SpecProd == InitProd /\ [][NextProd]_vars

(***************************************************************************)
(* Claims about the production server (SpecProd).                          *)
(***************************************************************************)
\* The keys the server was configured with, and whether a key is one of them.
ConfiguredKeys == IF server.api_keys = None THEN {} ELSE Range(server.api_keys[1])

PresentedKey(t) ==
    IF t.op = "api_chat" THEN bearer_key(t.authorization) ELSE query_key(t.key)

\* C31: with at least one key configured, a POST /api/chat without a valid
\* bearer key is answered 401 and a /ws/chat connection without a valid key
\* gets the auth_error event and is closed, and neither starts an agent run;
\* with no key configured every request is admitted.
C31_KeyRequired ==
    [][ trace'.op \in {"api_chat", "ws_chat"} =>
          /\ (ConfiguredKeys # {} /\ PresentedKey(trace') \notin ConfiguredKeys) =>
                /\ ~trace'.started
                /\ trace'.op = "api_chat" => trace'.status = 401
                /\ trace'.op = "ws_chat" =>
                      /\ trace'.events = <<ChatEvent("auth_error", "Invalid API key", 0)>>
                      /\ trace'.close_code = 4001
                      /\ chat'.kind = "closed"
          /\ ConfiguredKeys = {} => trace'.started
      ]_vars

\* The half of C31 that holds: a request without a valid key never starts an
\* agent run and never reaches a chat handler, no message is handled on a
\* connection that was not admitted, and with no key configured every request
\* is admitted.
NoRunWithoutValidKey ==
    [][ /\ trace'.op \in {"api_chat", "ws_chat"} =>
              /\ (ConfiguredKeys # {} /\ PresentedKey(trace') \notin ConfiguredKeys) =>
                    /\ ~trace'.started
                    /\ trace'.op = "ws_chat" => chat'.kind = "closed"
                    /\ trace'.op = "api_chat" => chat' = chat
                    /\ trace'.events \in
                          {<<>>, <<ChatEvent("auth_error", "Invalid API key", 0)>>}
              /\ ConfiguredKeys = {} => trace'.started
        /\ trace'.op = "turn" => chat.kind = "ws"
      ]_vars

\* Every rejection of a key made of ASCII characters, by a server whose keys
\* are ASCII, is the one the claim describes.
AsciiKeysRejected ==
    [][ (/\ trace'.op \in {"api_chat", "ws_chat"}
         /\ ConfiguredKeys # {}
         /\ PresentedKey(trace') \notin ConfiguredKeys
         /\ IsAscii(PresentedKey(trace'))
         /\ \A k \in ConfiguredKeys : IsAscii(k)) =>
            /\ trace'.raised = ""
            /\ trace'.op = "api_chat" => trace'.status = 401
            /\ trace'.op = "ws_chat" => trace'.close_code = 4001
      ]_vars

====
